---------------------------- MODULE Spec2Model ----------------------------
(***************************************************************************)
(* A model of the JKQ decision-diagram package: the float pool             *)
(* (ComplexTable), the cache lane of scratch complex numbers, the node     *)
(* unique tables with reference counting and garbage collection, and the   *)
(* package operations built on them.                                       *)
(*                                                                         *)
(* Floating-point values are modelled as fixed-point integers: the real    *)
(* number x is the integer x * Scale, and the tolerance is a number of     *)
(* units.  Pointers are integers; as in the source, the least significant  *)
(* bit of a pointer to a float entry carries the sign of the number, so    *)
(* every aligned entry address is even.  Statistics counters (hits,        *)
(* collisions, lookups, gcCalls, gcRuns) influence nothing and are left    *)
(* out.                                                                    *)
(***************************************************************************)
EXTENDS Integers, Sequences, FiniteSets, TLC

\* ------------------------------------------------------------------------
\* Bounds of the model
\* ------------------------------------------------------------------------

\* number of float entries the arena may hand out before allocation stops
MaxEnt == 5

\* std::numeric_limits<RefCount>::max(), scaled down
RefCountMax == 3
\* the arguments the template ComplexTable<NBUCKET, INITIAL_ALLOCATION_SIZE,
\* GROWTH_FACTOR, INITIAL_GC_LIMIT> is instantiated with, scaled down
CT_NBUCKET == 4
INITIAL_ALLOCATION_SIZE == 4
INITIAL_GC_LIMIT == 4
\* ComplexNumbers::CACHE_SIZE, scaled down
CACHE_SIZE == 24
\* the number of qubits the package is constructed for
NQ == 2
\* number of nodes of a kind the arena may hold before allocation stops
MaxNode == 6
\* the arguments of UniqueTable<Edge, NBUCKET, ALLOCATION_SIZE> and the
\* gcLimit of its constructor, scaled down
UT_NBUCKET == 2
ALLOCATION_SIZE == 2
UT_GC_LIMIT == 3
\* slots of a compute table and buckets of the Toffoli table, scaled down
CTSLOTS == 2
TT_NBUCKET == 2
\* the outstanding incRefs the client makes on one edge
MaxRootRefs == 2
\* the edges the client keeps protected at a time
MaxHeld == 2
\* the calls the client makes on one package
MaxOps == 4
\* the number of nodes a client of normalization builds
NormOps == 2

\* ------------------------------------------------------------------------
\* Program constants
\* ------------------------------------------------------------------------

\* fixed-point unit: the integer Scale stands for the real number 1
Scale == 1024
GROWTH_FACTOR == 2
\* edges of a vector node and of a matrix node
RADIX == 2
NEDGE == 4
\* the tolerance in effect (static inline fp TOLERANCE, set by setTolerance),
\* in units
DEFAULT_TOLERANCE == 2
\* 0.5L and SQRT2_2 of the ComplexTable constructor, in units
HALF == 512
SQRT2_2 == 724

Null == 0

Abs(x) == IF x < 0 THEN -x ELSE x
Min(a, b) == IF a < b THEN a ELSE b
Max(a, b) == IF a > b THEN a ELSE b

\* a function as the table of its values: TLC keeps a function constructor
\* unevaluated, and an array of the program holds its elements
atOnce(f) == f @@ <<>>

\* ------------------------------------------------------------------------
\* ComplexTable: the float pool
\* ------------------------------------------------------------------------

\* addresses of the arena entries, of the static entries zero and one
EntryAddr(k) == 2 * k
ArenaAddrs == {EntryAddr(k) : k \in 1..MaxEnt}
zero == EntryAddr(MaxEnt + 1)
one == EntryAddr(MaxEnt + 2)

\* Entry::getAlignedPointer, getNegativePointer, flipPointerSign, isNegativePointer
getAlignedPointer(e) == e - (e % 2)
getNegativePointer(e) == getAlignedPointer(e) + 1
flipPointerSign(e) == IF e % 2 = 1 THEN e - 1 ELSE e + 1
isNegativePointer(e) == e % 2 = 1

\* a value-initialised Entry{}
EmptyEntry == [value |-> 0, next |-> Null, refCount |-> 0]

\* first and last arena index of chunk c (chunk 0 holds INITIAL_ALLOCATION_SIZE
\* entries, each further chunk GROWTH_FACTOR times the one before)
RECURSIVE ChunkSize(_)
ChunkSize(c) == IF c = 0 THEN INITIAL_ALLOCATION_SIZE ELSE GROWTH_FACTOR * ChunkSize(c - 1)
RECURSIVE ChunkBase(_)
ChunkBase(c) == IF c = 0 THEN 0 ELSE ChunkBase(c - 1) + ChunkSize(c - 1)

\* the members of one ComplexTable object; chunkIt and chunkEndIt are arena
\* indices (chunkIt: the next entry never handed out)
VARIABLES ct, TOLERANCE, pkg, roots, sat, ops

\* Entry lookup by address: the static entries are never written
EntryAt(t, a) ==
    IF a = zero THEN [value |-> 0, next |-> Null, refCount |-> 1]
    ELSE IF a = one THEN [value |-> Scale, next |-> Null, refCount |-> 1]
    ELSE t.chunks[a \div 2]

CT_MASK == CT_NBUCKET - 1

\* static std::size_t hash(const fp val)
hash(val) == Min((val * CT_MASK) \div Scale, CT_MASK)

\* find comparing with the tolerance the program starts with instead of the
\* one in effect
RECURSIVE find_DefaultTolerance(_, _, _, _)
find_DefaultTolerance(t, p, val, tol) ==
    IF p = Null THEN Null
    ELSE IF Abs(EntryAt(t, p).value - val) < DEFAULT_TOLERANCE THEN p
    ELSE find_DefaultTolerance(t, EntryAt(t, p).next, val, tol)

\* inline Entry* find(const Bucket& bucket, const fp& val)
RECURSIVE find(_, _, _, _)
find(t, p, val, tol) ==
    IF p = Null THEN Null
    ELSE IF Abs(EntryAt(t, p).value - val) < tol THEN p
    ELSE find(t, EntryAt(t, p).next, val, tol)

\* whether getEntry can be served within the bound of the model
CanGetEntry(t) == t.available # Null \/ t.chunkIt <= MaxEnt

\* Entry* getEntry(): [ct, ret]
getEntry(t) ==
    IF t.available # Null
    THEN LET entry == t.available
         IN [ct |-> [t EXCEPT !.available = t.chunks[entry \div 2].next,
                               !.chunks[entry \div 2].refCount = 0],
             ret |-> entry]
    ELSE LET t1 == IF t.chunkIt = t.chunkEndIt
                   THEN [t EXCEPT !.allocations = @ + t.allocationSize,
                                  !.allocationSize = @ * GROWTH_FACTOR,
                                  !.chunkID = @ + 1,
                                  !.chunkIt = ChunkBase(t.chunkID + 1) + 1,
                                  !.chunkEndIt = ChunkBase(t.chunkID + 1)
                                                 + ChunkSize(t.chunkID + 1) + 1]
                   ELSE t
         IN [ct |-> [t1 EXCEPT !.chunkIt = @ + 1], ret |-> EntryAddr(t1.chunkIt)]

\* void returnEntry(Entry* entry)
returnEntry(t, entry) ==
    [t EXCEPT !.chunks[entry \div 2].next = t.available, !.available = entry]

\* the bucket searched third by lookup ("potentially higher bucket")
upperKeyOf(val, tol) == hash(val - tol)

\* a plausible slip: the key of a new entry computed without the spread
\* over the buckets
insertKeyOf_NoSpread(val) == Min(val \div Scale, CT_MASK)

\* the bucket a new entry is linked into
insertKeyOf(val) == hash(val)

\* a plausible slip: the new entry is linked and the peak updated, count is
\* left as it was
lookupInsert_NoCount(g, val, ik) ==
    [ct |-> [g.ct EXCEPT !.chunks[g.ret \div 2].value = val,
                         !.chunks[g.ret \div 2].next = g.ct.table[ik],
                         !.table[ik] = g.ret,
                         !.peakCount = Max(@, g.ct.count + 1)],
     ret |-> g.ret]

\* lookup: "value was not found in the table -> get a new entry and add it to
\* the table", g the result of getEntry()
lookupInsert(g, val, ik) ==
    [ct |-> [g.ct EXCEPT !.chunks[g.ret \div 2].value = val,
                         !.chunks[g.ret \div 2].next = g.ct.table[ik],
                         !.table[ik] = g.ret,
                         !.count = @ + 1,
                         !.peakCount = Max(@, g.ct.count + 1)],
     ret |-> g.ret]

\* lookup: the results p1, p2, p3 of the searches of the three buckets
lookupFound(t, val, p1, p2, p3) ==
    IF p1 # Null THEN [ct |-> t, ret |-> p1]
    ELSE IF p2 # Null THEN [ct |-> t, ret |-> p2]
    ELSE IF p3 # Null THEN [ct |-> t, ret |-> p3]
    ELSE lookupInsert(getEntry(t), val, insertKeyOf(val))

\* lookup: the searches of the bucket key, of the lower and of the upper one
lookupIn(t, val, tol, key, lowerKey, upperKey) ==
    lookupFound(t, val,
                find(t, t.table[key], val, tol),
                IF val - tol >= 0 /\ lowerKey # key
                THEN find(t, t.table[lowerKey], val, tol) ELSE Null,
                IF upperKey # key
                THEN find(t, t.table[upperKey], val, tol) ELSE Null)

\* Entry* lookup(const fp& val), for val >= 0: [ct, ret]
lookup(t, val, tol) ==
    IF Abs(val) < tol THEN [ct |-> t, ret |-> zero]
    ELSE IF Abs(val - Scale) < tol THEN [ct |-> t, ret |-> one]
    ELSE lookupIn(t, val, tol, hash(val), hash(val - tol), upperKeyOf(val, tol))

\* whether lookup(val) allocates a new entry
lookupMisses(t, val, tol) ==
    /\ Abs(val) >= tol /\ Abs(val - Scale) >= tol
    /\ find(t, t.table[hash(val)], val, tol) = Null
    /\ ~(val - tol >= 0 /\ hash(val - tol) # hash(val)
         /\ find(t, t.table[hash(val - tol)], val, tol) # Null)
    /\ ~(upperKeyOf(val, tol) # hash(val)
         /\ find(t, t.table[upperKeyOf(val, tol)], val, tol) # Null)

\* the new count an incRef leaves in an entry's refCount
incRefCount(rc) == IF rc = RefCountMax THEN rc ELSE rc + 1

\* the new count a decRef leaves (the source asserts refCount > 0)
decRefCount(rc) == rc - 1

\* static void incRef(Entry* entry)
incRefEntry(t, entry) ==
    LET entryPtr == getAlignedPointer(entry)
    IN IF entry = Null \/ entryPtr = one \/ entryPtr = zero THEN t
       ELSE [t EXCEPT !.chunks[entryPtr \div 2].refCount = incRefCount(@)]

\* static void decRef(Entry* entry)
decRefEntry(t, entry) ==
    LET entryPtr == getAlignedPointer(entry)
    IN IF entry = Null \/ entryPtr = one \/ entryPtr = zero THEN t
       ELSE [t EXCEPT !.chunks[entryPtr \div 2].refCount = decRefCount(@)]

\* a plausible slip: entries referenced once are collected as well
collectable_AtMostOne(e) == e.refCount <= 1

\* the test garbageCollect applies to an entry: p->refCount == 0
collectable(e) == e.refCount = 0

\* the walk of one bucket by garbageCollect: acc = [ct, collected, remaining]
RECURSIVE gcBucket(_, _, _, _)
gcBucket(acc, key, p, lastp) ==
    IF p = Null THEN acc
    ELSE LET e == EntryAt(acc.ct, p)
         IN IF collectable(e)
            THEN LET t1 == IF lastp = Null
                           THEN [acc.ct EXCEPT !.table[key] = e.next]
                           ELSE [acc.ct EXCEPT !.chunks[lastp \div 2].next = e.next]
                 IN gcBucket([ct |-> returnEntry(t1, p),
                              collected |-> acc.collected + 1,
                              remaining |-> acc.remaining],
                             key, e.next, lastp)
            ELSE gcBucket([acc EXCEPT !.remaining = @ + 1], key, e.next, p)

RECURSIVE gcBuckets(_, _)
gcBuckets(acc, key) ==
    IF key > CT_MASK THEN acc
    ELSE gcBuckets(gcBucket(acc, key, acc.ct.table[key], Null), key + 1)

\* whether garbageCollect(force) runs
ctGcRuns(t, force) == ~((~force /\ t.count < t.gcLimit) \/ t.count = 0)

\* a plausible slip: the limit lowered to a 32nd
gcLimitAfter_LowerTooFar(gcLimit, remaining) ==
    IF remaining > (gcLimit * 9) \div 10 THEN remaining + INITIAL_GC_LIMIT
    ELSE IF remaining < gcLimit \div 16 THEN gcLimit \div 32
    ELSE gcLimit

\* garbageCollect: "The garbage collection limit changes dynamically
\* depending on the number of remaining (active) nodes"
gcLimitAfter(gcLimit, remaining) ==
    IF remaining > (gcLimit * 9) \div 10 THEN remaining + INITIAL_GC_LIMIT
    ELSE IF remaining < gcLimit \div 16 THEN gcLimit \div 8
    ELSE gcLimit

\* std::size_t garbageCollect(bool force): [ct, ret]
ctGarbageCollect(t, force) ==
    IF ~ctGcRuns(t, force) THEN [ct |-> t, ret |-> 0]
    ELSE LET acc == gcBuckets([ct |-> t, collected |-> 0, remaining |-> 0], 0)
         IN [ct |-> [acc.ct EXCEPT !.gcLimit = gcLimitAfter(t.gcLimit, acc.remaining),
                                   !.count = acc.remaining],
             ret |-> acc.collected]

\* void clear(): every chunk but the first is released; the entries of the
\* first chunk keep what they hold
ctClear(t) ==
    [t EXCEPT !.table = [k \in 0..CT_MASK |-> Null],
              !.available = Null,
              !.chunks = [k \in 1..MaxEnt |->
                            IF k <= INITIAL_ALLOCATION_SIZE THEN t.chunks[k]
                            ELSE EmptyEntry],
              !.chunkID = 0,
              !.chunkIt = 1,
              !.chunkEndIt = INITIAL_ALLOCATION_SIZE + 1,
              !.allocationSize = INITIAL_ALLOCATION_SIZE * GROWTH_FACTOR,
              !.allocations = INITIAL_ALLOCATION_SIZE,
              !.count = 0,
              !.peakCount = 0,
              !.gcLimit = INITIAL_GC_LIMIT]

\* ComplexTable(): the members set by the constructor before its two lookups
ctConstructed0 ==
    [table |-> [k \in 0..CT_MASK |->
                  IF k = 0 THEN zero ELSE IF k = CT_MASK THEN one ELSE Null],
     available |-> Null,
     chunks |-> [k \in 1..MaxEnt |-> EmptyEntry],
     chunkID |-> 0,
     chunkIt |-> 1,
     chunkEndIt |-> INITIAL_ALLOCATION_SIZE + 1,
     allocationSize |-> INITIAL_ALLOCATION_SIZE * GROWTH_FACTOR,
     allocations |-> INITIAL_ALLOCATION_SIZE,
     count |-> 2,
     peakCount |-> 2,
     gcLimit |-> INITIAL_GC_LIMIT]

\* lookup(x)->refCount++ of the constructor
lookupAndPin(t, val, tol) ==
    LET l == lookup(t, val, tol)
    IN [l.ct EXCEPT !.chunks[l.ret \div 2].refCount = @ + 1]

\* ComplexTable(): the constructed object
ctConstructed(tol) == lookupAndPin(lookupAndPin(ctConstructed0, HALF, tol), SQRT2_2, tol)

\* ------------------------------------------------------------------------
\* Package: complex numbers (ComplexNumbers cn) and the cache lane
\* ------------------------------------------------------------------------

\* the state of one Package object is a record P with the fields
\*   ct         the float pool of cn
\*   cache      the cache lane: val and next of the CACHE_SIZE entries, and
\*              avail (Cache_Avail)
\*   cacheCount cn.cacheCount
\*   ut         the unique tables, ut["v"] and ut["m"]
\*   tab        the compute tables, by name
\*   toffoli, idTable, operations   the three further tables
\*   tol        the static TOLERANCE the operations read
\*   err        the failed assertions and thrown errors so far
\*   oob        an allocation went beyond a bound of the model

\* CN::ZERO, CN::ONE
ZERO == [r |-> zero, i |-> zero]
ONE == [r |-> one, i |-> zero]

\* addresses of the cache lane follow those of the float pool
CacheAddr(j) == one + 2 * j
isCached(x) == getAlignedPointer(x) > one
CacheIdx(x) == (getAlignedPointer(x) - one) \div 2

\* the cache lane as the constructor chains it
cacheConstructed ==
    [val |-> [j \in 1..CACHE_SIZE |-> 0],
     next |-> [j \in 1..CACHE_SIZE |-> IF j = CACHE_SIZE THEN Null ELSE CacheAddr(j + 1)],
     avail |-> CacheAddr(1)]

\* the entries on the chain from Cache_Avail
RECURSIVE cacheChain(_, _)
cacheChain(P, x) ==
    IF x = Null THEN {} ELSE {x} \cup cacheChain(P, P.cache.next[CacheIdx(x)])

\* static fp val(const ComplexTableEntry* x)
cnVal(P, x) ==
    LET v == IF isCached(x) THEN P.cache.val[CacheIdx(x)]
             ELSE EntryAt(P.ct, getAlignedPointer(x)).value
    IN IF isNegativePointer(x) THEN -v ELSE v

\* the value of a Complex as a pair
cnValue(P, c) == [r |-> cnVal(P, c.r), i |-> cnVal(P, c.i)]

Flag(P, what) == [P EXCEPT !.err = @ \cup {what}]

\* fixed-point arithmetic, rounding to the nearest unit
RoundDiv(n, d) == IF d > 0 THEN (2 * n + d) \div (2 * d) ELSE (-2 * n - d) \div (-2 * d)
fxMul(a, b) == RoundDiv(a * b, Scale)
fxDiv(a, b) == RoundDiv(a * Scale, b)
RECURSIVE isqrt(_, _, _)
isqrt(n, lo, hi) ==
    IF lo >= hi THEN lo
    ELSE LET mid == (lo + hi + 1) \div 2
         IN IF mid * mid <= n THEN isqrt(n, mid, hi) ELSE isqrt(n, lo, mid - 1)
fxSqrt(a) ==
    LET n == a * Scale
        f == isqrt(n, 0, Min(n, 32768))
    IN IF n - f * f > f THEN f + 1 ELSE f

\* ComplexNumbers::mag2
mag2Of(x) == fxMul(x.r, x.r) + fxMul(x.i, x.i)
mag2(P, a) == mag2Of(cnValue(P, a))

\* the values ComplexNumbers::add, mul and div compute
addValue(a, b) == [r |-> a.r + b.r, i |-> a.i + b.i]
mulValue(a, b) ==
    [r |-> fxMul(a.r, b.r) - fxMul(a.i, b.i), i |-> fxMul(a.r, b.i) + fxMul(a.i, b.r)]
divValue(a, b) ==
    LET cmag == fxMul(b.r, b.r) + fxMul(b.i, b.i)
    IN IF cmag = 0 THEN [r |-> 0, i |-> 0]
       ELSE [r |-> fxDiv(fxMul(a.r, b.r) + fxMul(a.i, b.i), cmag),
             i |-> fxDiv(fxMul(a.i, b.r) - fxMul(a.r, b.i), cmag)]

\* ComplexNumbers::conj
conj(a) == [r |-> a.r, i |-> IF a.i = zero THEN a.i ELSE flipPointerSign(a.i)]

\* the store r.r->val = x.r; r.i->val = x.i of add, sub, mul and div; a store
\* that would change an entry of the float pool is recorded
cnStore(P, c, x) ==
    LET st(Q, ptr, v) ==
            IF isCached(ptr) THEN [Q EXCEPT !.cache.val[CacheIdx(ptr)] = v]
            ELSE IF cnVal(Q, getAlignedPointer(ptr)) = v THEN Q
            ELSE Flag(Q, "store into an interned number")
    IN st(st(P, c.r, x.r), c.i, x.i)

\* static bool equalsZero(const Complex& c), equalsOne
equalsZero(P, c) ==
    c = ZERO \/ (Abs(cnVal(P, c.r)) < P.tol /\ Abs(cnVal(P, c.i)) < P.tol)
equalsOne(P, c) ==
    c = ONE \/ (Abs(cnVal(P, c.r) - Scale) < P.tol /\ Abs(cnVal(P, c.i)) < P.tol)

\* Complex getCachedComplex(): [P, ret]
getCachedComplex(P) ==
    IF P.cacheCount < 2 \/ P.cache.avail = Null
    THEN [P |-> [Flag(P, "getCachedComplex: cache lane empty") EXCEPT !.oob = TRUE],
          ret |-> ZERO]
    ELSE LET cr == P.cache.avail
             ci == P.cache.next[CacheIdx(cr)]
         IN [P |-> [P EXCEPT !.cacheCount = @ - 2,
                             !.cache.avail = P.cache.next[CacheIdx(ci)]],
             ret |-> [r |-> cr, i |-> ci]]

\* Complex getCachedComplex(const fp& r, const fp& i): [P, ret]
getCachedComplexOf(P, x) ==
    LET g == getCachedComplex(P)
    IN IF g.P.oob THEN g ELSE [P |-> cnStore(g.P, g.ret, x), ret |-> g.ret]

\* void releaseCached(const Complex& c)
releaseCached(P, c) ==
    IF c = ZERO \/ c = ONE THEN Flag(P, "releaseCached: ZERO or ONE")
    ELSE IF ~isCached(c.r) \/ ~isCached(c.i) THEN Flag(P, "releaseCached: interned number")
    ELSE IF c.r \in cacheChain(P, P.cache.avail) \/ c.i \in cacheChain(P, P.cache.avail)
    THEN Flag(P, "releaseCached: released twice")
    ELSE LET Q == [P EXCEPT !.cache.next[CacheIdx(c.i)] = P.cache.avail,
                            !.cache.avail = c.r,
                            !.cacheCount = @ + 2]
         IN IF Q.cacheCount > CACHE_SIZE THEN Flag(Q, "releaseCached: cacheCount > CACHE_SIZE")
            ELSE Q

\* the entry l found for |x|, tagged with the sign of x
cnLookupSigned(P, l, x) ==
    [P |-> [P EXCEPT !.ct = l.ct],
     ret |-> IF x < 0 THEN getNegativePointer(l.ret) ELSE l.ret]

\* one component of the sign-tagged lookup: [P, ret]
cnLookupVal(P, x) ==
    IF Abs(x) < P.tol THEN [P |-> P, ret |-> zero]
    ELSE IF lookupMisses(P.ct, Abs(x), P.tol) /\ ~CanGetEntry(P.ct)
    THEN [P |-> [P EXCEPT !.oob = TRUE], ret |-> zero]
    ELSE cnLookupSigned(P, lookup(P.ct, Abs(x), P.tol), x)

\* the two components looked up make the Complex
cnLookupPair(lr, li) ==
    [P |-> li.P, ret |-> [r |-> lr.ret, i |-> li.ret]]

\* lookup of the imaginary part once the real part is looked up
cnLookupIm(lr, x) ==
    IF lr.P.oob THEN [P |-> lr.P, ret |-> ZERO]
    ELSE cnLookupPair(lr, cnLookupVal(lr.P, x.i))

\* Complex lookup(const fp& r, const fp& i): [P, ret]
cnLookup(P, x) == cnLookupIm(cnLookupVal(P, x.r), x)

\* ComplexNumbers::incRef(const Complex& c), decRef; a decRef of an entry
\* whose count is 0 fails the assertion of ComplexTable::decRef
cnIncRef(P, c) == [P EXCEPT !.ct = incRefEntry(incRefEntry(P.ct, c.r), c.i)]
cnDecRef(P, c) ==
    LET bad(t, x) == /\ getAlignedPointer(x) \notin {zero, one}
                     /\ EntryAt(t, getAlignedPointer(x)).refCount = 0
        t1 == decRefEntry(P.ct, c.r)
        Q == [P EXCEPT !.ct = decRefEntry(t1, c.i)]
    IN IF bad(P.ct, c.r) \/ bad(t1, c.i) THEN Flag(Q, "decRef: refCount == 0") ELSE Q

\* ------------------------------------------------------------------------
\* Package: nodes and unique tables (UniqueTable<vNode>, UniqueTable<mNode>)
\* ------------------------------------------------------------------------

\* the two node kinds and the number of edges of a node
Kinds == {"v", "m"}
NEdgesOf(k) == IF k = "v" THEN RADIX ELSE NEDGE
Slots(k) == 0..(NEdgesOf(k) - 1)

\* nodes of a kind have the addresses 1..MaxNode; vNode::terminal and
\* mNode::terminal follow them
Terminal == MaxNode + 1
Levels == 0..(NQ - 1)

\* Edge::zero (vZero, mZero), Edge::one, and the edge {nullptr, CN::ZERO}
EdgeZero == [p |-> Terminal, w |-> ZERO]
EdgeOne == [p |-> Terminal, w |-> ONE]
NullEdge == [p |-> Null, w |-> ZERO]

\* vNode::terminalNode, mNode::terminalNode
terminalNode(k) ==
    [e |-> [i \in Slots(k) |-> NullEdge], ref |-> 0, v |-> -1, next |-> Null,
     symm |-> (k = "m"), ident |-> (k = "m")]

\* a value-initialised node of new Node[ALLOCATION_SIZE]
EmptyNode(k) ==
    [e |-> [i \in Slots(k) |-> NullEdge], ref |-> 0, v |-> 0, next |-> Null,
     symm |-> FALSE, ident |-> FALSE]

\* dereference of a node pointer
NodeAt(P, k, p) == IF p = Terminal THEN terminalNode(k) ELSE P.ut[k].nodes[p]
isTerminal(e) == e.p = Terminal

UT_MASK == UT_NBUCKET - 1

\* UniqueTable(nvars, gcLimit, gcIncrement) after resize(nvars)
utConstructed(k) ==
    [tables |-> [v \in Levels |-> [key \in 0..UT_MASK |-> Null]],
     available |-> Null,
     nodes |-> [n \in 1..MaxNode |-> EmptyNode(k)],
     allocations |-> 0,
     nodeCount |-> 0,
     active |-> [v \in Levels |-> 0],
     activeNodeCount |-> 0,
     gcLimit |-> UT_GC_LIMIT,
     gcIncrement |-> 0,
     nvars |-> NQ]

\* std::accumulate(active.begin(), active.end(), 0UL)
RECURSIVE accumulate(_, _)
accumulate(active, n) == IF n = 0 THEN 0 ELSE active[n - 1] + accumulate(active, n - 1)

\* void resize(std::size_t nq): the levels from nq on are dropped, new levels
\* have empty buckets and no active node
utResize(P, k, nq) ==
    LET u == P.ut[k]
        kept(v) == v < nq /\ v < u.nvars
        active == [v \in Levels |-> IF kept(v) THEN u.active[v] ELSE 0]
    IN [P EXCEPT !.ut[k].nvars = nq,
                 !.ut[k].tables = [v \in Levels |->
                                     IF kept(v) THEN u.tables[v]
                                     ELSE [key \in 0..UT_MASK |-> Null]],
                 !.ut[k].active = active,
                 !.ut[k].activeNodeCount = accumulate(active, nq)]

\* static std::size_t hash(const Node* p)
RECURSIVE shr(_, _)
shr(x, i) == IF i = 0 THEN x ELSE shr(x \div 2, i - 1)
RECURSIVE bitand(_, _)
bitand(a, b) ==
    IF a = 0 \/ b = 0 THEN 0
    ELSE 2 * bitand(a \div 2, b \div 2) + (IF a % 2 = 1 /\ b % 2 = 1 THEN 1 ELSE 0)
RECURSIVE utHashFrom(_, _, _, _)
utHashFrom(k, node, i, key) ==
    IF i = NEdgesOf(k) THEN key
    ELSE utHashFrom(k, node, i + 1,
                    bitand(key + bitand(shr(node.e[i].p, i) + shr(node.e[i].w.r, i)
                                        + shr(node.e[i].w.i, i + 1), UT_MASK),
                           UT_MASK))
utHash(k, node) == utHashFrom(k, node, 0, 0)

\* the nodes reachable by next from p
RECURSIVE nodeChain(_, _, _)
nodeChain(P, k, p) ==
    IF p = Null THEN {} ELSE {p} \cup nodeChain(P, k, P.ut[k].nodes[p].next)

\* the nodes linked in the unique table of kind k, and those on its free list
LinkedNodes(P, k) ==
    UNION {nodeChain(P, k, P.ut[k].tables[v][key]) : v \in Levels, key \in 0..UT_MASK}
FreeNodes(P, k) == nodeChain(P, k, P.ut[k].available)

\* whether getNode can be served within the bound of the model
CanGetNode(P, k) ==
    P.ut[k].available # Null \/ P.ut[k].allocations + ALLOCATION_SIZE <= MaxNode

\* a plausible slip: the node of the free list keeps its reference count
getNode_KeepRef(P, k) ==
    LET u == P.ut[k]
    IN IF u.available # Null
       THEN [P |-> [P EXCEPT !.ut[k].available = u.nodes[u.available].next,
                             !.ut[k].nodes[u.available].next = Null],
             ret |-> u.available]
       ELSE IF ~CanGetNode(P, k)
       THEN [P |-> [P EXCEPT !.oob = TRUE], ret |-> Terminal]
       ELSE LET r == u.allocations + 1
                last == u.allocations + ALLOCATION_SIZE
            IN [P |-> [P EXCEPT !.ut[k].allocations = last,
                                !.ut[k].available = r + 1,
                                !.ut[k].nodes =
                                    atOnce([n \in 1..MaxNode |->
                                        IF n = r THEN EmptyNode(k)
                                        ELSE IF n > r /\ n <= last
                                        THEN [EmptyNode(k) EXCEPT
                                                !.next = IF n = last THEN Null ELSE n + 1]
                                        ELSE u.nodes[n]])],
                ret |-> r]

\* Node* getNode(): [P, ret]
getNode(P, k) ==
    LET u == P.ut[k]
    IN IF u.available # Null
       THEN [P |-> [P EXCEPT !.ut[k].available = u.nodes[u.available].next,
                             !.ut[k].nodes[u.available].next = Null,
                             !.ut[k].nodes[u.available].ref = 0],
             ret |-> u.available]
       ELSE IF ~CanGetNode(P, k)
       THEN [P |-> [P EXCEPT !.oob = TRUE], ret |-> Terminal]
       ELSE LET r == u.allocations + 1
                last == u.allocations + ALLOCATION_SIZE
            IN [P |-> [P EXCEPT !.ut[k].allocations = last,
                                !.ut[k].available = r + 1,
                                !.ut[k].nodes =
                                    atOnce([n \in 1..MaxNode |->
                                        IF n = r THEN EmptyNode(k)
                                        ELSE IF n > r /\ n <= last
                                        THEN [EmptyNode(k) EXCEPT
                                                !.next = IF n = last THEN Null ELSE n + 1]
                                        ELSE u.nodes[n]])],
                ret |-> r]

\* void returnNode(Node* p)
returnNode(P, k, p) ==
    [P EXCEPT !.ut[k].nodes[p].next = P.ut[k].available, !.ut[k].available = p]

\* the node of the bucket from p on whose edges equal those of the candidate
utFind_HeadOnly(P, k, p, edges) ==
    IF p = Null THEN Null
    ELSE IF P.ut[k].nodes[p].e = edges THEN p
    ELSE Null
RECURSIVE utFind(_, _, _, _)
utFind(P, k, p, edges) ==
    IF p = Null THEN Null
    ELSE IF P.ut[k].nodes[p].e = edges THEN p
    ELSE utFind(P, k, P.ut[k].nodes[p].next, edges)

\* Edge lookup(const Edge& e, bool keepNode): [P, ret]
utLookup(P, k, e, keepNode) ==
    IF e.p = Terminal THEN [P |-> P, ret |-> e]
    ELSE LET node == P.ut[k].nodes[e.p]
             key == utHash(k, node)
             v == node.v
             p == utFind(P, k, P.ut[k].tables[v][key], node.e)
         IN IF p # Null
            THEN [P |-> IF e.p # p /\ ~keepNode THEN returnNode(P, k, e.p) ELSE P,
                  ret |-> [p |-> p, w |-> e.w]]
            ELSE [P |-> [P EXCEPT !.ut[k].nodes[e.p].next = P.ut[k].tables[v][key],
                                  !.ut[k].tables[v][key] = e.p,
                                  !.ut[k].nodeCount = @ + 1],
                  ret |-> e]

\* void incRef(const Edge& e)
utIncRefEdges_ParentOnly(P, k, p, i) == P
RECURSIVE utIncRef(_, _, _)
RECURSIVE utIncRefEdges(_, _, _, _)
utIncRefEdges(P, k, p, i) ==
    IF i = NEdgesOf(k) THEN P
    ELSE LET edge == P.ut[k].nodes[p].e[i]
         IN utIncRefEdges(IF edge.p # Null THEN utIncRef(P, k, edge) ELSE P, k, p, i + 1)
utIncRef(P, k, e) ==
    LET P1 == cnIncRef(P, e.w)
    IN IF isTerminal(e) THEN P1
       ELSE IF P1.ut[k].nodes[e.p].ref = RefCountMax THEN P1
       ELSE LET P2 == [P1 EXCEPT !.ut[k].nodes[e.p].ref = @ + 1]
            IN IF P2.ut[k].nodes[e.p].ref = 1
               THEN LET P3 == utIncRefEdges(P2, k, e.p, 0)
                        v == P3.ut[k].nodes[e.p].v
                    IN [P3 EXCEPT !.ut[k].active[v] = @ + 1,
                                  !.ut[k].activeNodeCount = @ + 1]
               ELSE P2

\* a plausible slip: the children are not released with the last reference
utDecRefEdges_ParentOnly(P, k, p, i) == P

\* void decRef(const Edge& e); the runtime error of a call on a node with
\* ref == 0 ends the calls it is nested in where they stand
decRefError == "In decref: ref==0 before decref"
RECURSIVE utDecRefFrom(_, _, _)
RECURSIVE utDecRefEdges(_, _, _, _)
utDecRefEdges(P, k, p, i) ==
    IF i = NEdgesOf(k) THEN P
    ELSE LET edge == P.ut[k].nodes[p].e[i]
             P1 == IF edge.p # Null THEN utDecRefFrom(P, k, edge) ELSE P
         IN IF decRefError \in P1.err THEN P1 ELSE utDecRefEdges(P1, k, p, i + 1)
utDecRefFrom(P, k, e) ==
    LET P1 == cnDecRef(P, e.w)
    IN IF isTerminal(e) THEN P1
       ELSE IF P1.ut[k].nodes[e.p].ref = RefCountMax THEN P1
       ELSE IF P1.ut[k].nodes[e.p].ref = 0 THEN Flag(P1, decRefError)
       ELSE LET P2 == [P1 EXCEPT !.ut[k].nodes[e.p].ref = @ - 1]
            IN IF P2.ut[k].nodes[e.p].ref = 0
               THEN LET P3 == utDecRefEdges(P2, k, e.p, 0)
                        v == P3.ut[k].nodes[e.p].v
                    IN IF decRefError \in P3.err THEN P3
                       ELSE [P3 EXCEPT !.ut[k].active[v] = @ - 1,
                                       !.ut[k].activeNodeCount = @ - 1]
               ELSE P2
utDecRef(P, k, e) ==
    LET R == utDecRefFrom([P EXCEPT !.err = @ \ {decRefError}], k, e)
    IN [R EXCEPT !.err = @ \cup P.err]

\* the nodes garbageCollect removes: "if (p->ref == 0)"
utCollectable_AtMostOne(n) == n.ref <= 1
utCollectable(n) == n.ref = 0

\* the walk of one bucket by garbageCollect: acc = [P, collected, remaining]
RECURSIVE utGcBucket(_, _, _, _, _, _)
utGcBucket(acc, k, v, key, p, lastp) ==
    IF p = Null THEN acc
    ELSE LET n == acc.P.ut[k].nodes[p]
         IN IF utCollectable(n)
            THEN LET P1 == IF lastp = Null
                           THEN [acc.P EXCEPT !.ut[k].tables[v][key] = n.next]
                           ELSE [acc.P EXCEPT !.ut[k].nodes[lastp].next = n.next]
                 IN utGcBucket([P |-> returnNode(P1, k, p),
                                collected |-> acc.collected + 1,
                                remaining |-> acc.remaining],
                               k, v, key, n.next, lastp)
            ELSE utGcBucket([acc EXCEPT !.remaining = @ + 1], k, v, key, n.next, p)

\* the loop of garbageCollect over the tables and their buckets, in order
RECURSIVE utGcBuckets(_, _, _)
utGcBuckets(acc, k, j) ==
    IF j = NQ * UT_NBUCKET THEN acc
    ELSE LET v == j \div UT_NBUCKET
             key == j % UT_NBUCKET
         IN utGcBuckets(utGcBucket(acc, k, v, key, acc.P.ut[k].tables[v][key], Null),
                        k, j + 1)

\* whether garbageCollect(force) runs
utGcRuns(P, k, force) == ~(~force /\ P.ut[k].nodeCount < P.ut[k].gcLimit)

\* std::size_t garbageCollect(bool force): [P, ret]
utGarbageCollect(P, k, force) ==
    IF ~utGcRuns(P, k, force) THEN [P |-> P, ret |-> 0]
    ELSE LET acc == utGcBuckets([P |-> P, collected |-> 0, remaining |-> 0], k, 0)
         IN [P |-> [acc.P EXCEPT !.ut[k].gcLimit = @ + P.ut[k].gcIncrement,
                                 !.ut[k].nodeCount = acc.remaining],
             ret |-> acc.collected]

\* void clear(): every linked node goes to the free list, bucket by bucket
RECURSIVE utClearBucket(_, _, _, _)
utClearBucket(P, k, v, key) ==
    LET current == P.ut[k].tables[v][key]
    IN IF current = Null THEN P
       ELSE utClearBucket(
                returnNode([P EXCEPT !.ut[k].tables[v][key] = P.ut[k].nodes[current].next],
                           k, current),
                k, v, key)
RECURSIVE utClearFrom(_, _, _)
utClearFrom(P, k, j) ==
    IF j = NQ * UT_NBUCKET THEN P
    ELSE utClearFrom(utClearBucket(P, k, j \div UT_NBUCKET, j % UT_NBUCKET), k, j + 1)
utClear(P, k) ==
    [utClearFrom(P, k, 0) EXCEPT !.ut[k].nodeCount = 0,
                                 !.ut[k].active = [v \in Levels |-> 0],
                                 !.ut[k].activeNodeCount = 0,
                                 !.ut[k].gcLimit = UT_GC_LIMIT]

\* ------------------------------------------------------------------------
\* Package: compute tables, Toffoli table, identity table, operations table
\* ------------------------------------------------------------------------

\* the compute tables of the package
TabNames ==
    {"vectorAdd", "matrixAdd", "matrixTranspose", "conjugateMatrixTranspose",
     "matrixMultiplication", "matrixVectorMultiplication", "vectorInnerProduct",
     "vectorKronecker", "matrixKronecker"}

\* a compute table is direct-mapped: one entry [a, b, r] per slot, and a slot
\* whose result has a null target is empty
NoEntry == [a |-> NullEdge, b |-> NullEdge, r |-> NullEdge]
EmptyTable == [slot \in 0..(CTSLOTS - 1) |-> NoEntry]
ctSlot(a, b) == (a.p + 2 * b.p) % CTSLOTS
tabLookup(P, name, a, b) ==
    LET en == P.tab[name][ctSlot(a, b)]
    IN IF en.r.p # Null /\ en.a = a /\ en.b = b THEN en.r ELSE NullEdge
tabInsert(P, name, a, b, r) ==
    [P EXCEPT !.tab[name][ctSlot(a, b)] = [a |-> a, b |-> b, r |-> r]]

\* an edge with its weight by value (CachedEdge)
CachedEdgeOf(P, e) == [p |-> e.p, w |-> cnValue(P, e.w)]

\* ToffoliTable: Entry{}, hash, insert, lookup, clear
TTEmptyEntry == [n |-> 0, controls |-> {}, target |-> 0, e |-> NullEdge]
RECURSIVE ttHashFrom(_, _)
ttHashFrom(key, controls) ==
    IF controls = {} THEN key
    ELSE LET c == CHOOSE x \in controls : \A y \in controls : x.qubit <= y.qubit
         IN ttHashFrom(key * ((IF c.pos THEN 29 ELSE 71) * c.qubit), controls \ {c})
ttHash(controls, target) == bitand(ttHashFrom(target, controls), TT_NBUCKET - 1)
ttInsert(P, n, controls, target, e) ==
    [P EXCEPT !.toffoli.table[ttHash(controls, target)] =
                  [n |-> n, controls |-> controls, target |-> target, e |-> e],
              !.toffoli.count = @ + 1]
\* a plausible slip: lookup comparing n and target only
ttLookup_NoControls(P, n, controls, target) ==
    LET entry == P.toffoli.table[ttHash(controls, target)]
    IN IF entry.e.p = Null \/ entry.n # n \/ entry.target # target
       THEN NullEdge ELSE entry.e
ttLookup(P, n, controls, target) ==
    LET entry == P.toffoli.table[ttHash(controls, target)]
    IN IF entry.e.p = Null \/ entry.n # n \/ entry.target # target
          \/ entry.controls # controls
       THEN NullEdge ELSE entry.e
ttClear(P) ==
    IF P.toffoli.count > 0
    THEN [P EXCEPT !.toffoli.table =
                       [key \in 0..(TT_NBUCKET - 1) |-> [P.toffoli.table[key] EXCEPT !.e.p = Null]],
                   !.toffoli.count = 0]
    ELSE P

\* void clearIdentityTable()
clearIdentityTable(P) ==
    [P EXCEPT !.idTable = [q \in Levels |-> [P.idTable[q] EXCEPT !.p = Null]]]

\* the table of noise operations: direct-mapped, keyed by the kind of the
\* operation and its qubits
opSlot(kind, qubits) == (kind + Cardinality(qubits)) % CTSLOTS
opInsert(P, kind, qubits, e) ==
    [P EXCEPT !.operations[opSlot(kind, qubits)] =
                  [kind |-> kind, qubits |-> qubits, r |-> e]]
opLookup(P, kind, qubits) ==
    LET en == P.operations[opSlot(kind, qubits)]
    IN IF en.r.p # Null /\ en.kind = kind /\ en.qubits = qubits THEN en.r ELSE NullEdge
opEmpty == [slot \in 0..(CTSLOTS - 1) |-> [kind |-> 0, qubits |-> {}, r |-> NullEdge]]

\* the compute tables clearComputeTables clears
ClearedTables ==
    {"vectorAdd", "matrixAdd", "matrixTranspose", "conjugateMatrixTranspose",
     "matrixMultiplication", "matrixVectorMultiplication", "vectorInnerProduct",
     "vectorKronecker", "matrixKronecker"}

\* void Package::clearComputeTables()
clearComputeTables(P) ==
    LET P1 == [P EXCEPT !.tab = [name \in TabNames |->
                                    IF name \in ClearedTables THEN EmptyTable
                                    ELSE P.tab[name]]]
    IN [clearIdentityTable(ttClear(P1)) EXCEPT !.operations = opEmpty]

pkgGarbageCollect_WhenCollected(P, force) ==
    LET P1 == utGarbageCollect(P, "v", force).P
        P2 == utGarbageCollect(P1, "m", force).P
        P3 == [P2 EXCEPT !.ct = ctGarbageCollect(P2.ct, force).ct]
    IN IF P3.ut = P.ut /\ P3.ct = P.ct THEN P3 ELSE clearComputeTables(P3)

\* void Package::garbageCollect(bool force)
pkgGarbageCollect(P, force) ==
    LET P1 == utGarbageCollect(P, "v", force).P
        P2 == utGarbageCollect(P1, "m", force).P
        P3 == [P2 EXCEPT !.ct = ctGarbageCollect(P2.ct, force).ct]
    IN clearComputeTables(P3)

\* void Package::reset(): clearUniqueTables(), clearComputeTables()
pkgReset(P) == clearComputeTables(utClear(utClear(P, "v"), "m"))

\* Package(nq): the constructed package
pkgConstructed(tol) ==
    [ct |-> ctConstructed(tol),
     cache |-> cacheConstructed,
     cacheCount |-> CACHE_SIZE,
     ut |-> [k \in Kinds |-> utConstructed(k)],
     tab |-> [name \in TabNames |-> EmptyTable],
     toffoli |-> [table |-> [key \in 0..(TT_NBUCKET - 1) |-> TTEmptyEntry], count |-> 0],
     idTable |-> [q \in Levels |-> NullEdge],
     operations |-> opEmpty,
     tol |-> tol,
     err |-> {},
     oob |-> FALSE]

\* ------------------------------------------------------------------------
\* Package: normalization and node construction
\* ------------------------------------------------------------------------

\* getTempCachedComplex(): the two slots at the head of the free list are
\* used without being taken; the values computed in them are carried by value
getTempCachedComplex(P) ==
    IF P.cacheCount < 2 THEN Flag(P, "getTempCachedComplex: cache lane empty") ELSE P

\* the result of an operation that went beyond a bound of the model
Stop(P, r) == [P |-> [P EXCEPT !.oob = TRUE], ret |-> r]

\* normalize, first loop: a weight that equals zero without being CN::ZERO is
\* released and its edge becomes Edge::zero
normalizeSnapEdge(P, k, p, i) ==
    LET w == P.ut[k].nodes[p].e[i].w
    IN IF equalsZero(P, w) /\ w # ZERO
       THEN [releaseCached(P, w) EXCEPT !.ut[k].nodes[p].e[i] = EdgeZero]
       ELSE P
RECURSIVE normalizeSnap(_, _, _, _)
normalizeSnap(P, k, p, i) ==
    IF i = NEdgesOf(k) THEN P
    ELSE normalizeSnap(normalizeSnapEdge(P, k, p, i), k, p, i + 1)

\* normalize, argmax == -1 and cached: the weights that are not CN::ZERO (of
\* the edges without a target, for a vector) are released
normalizeDropEdge(P, k, p, i) ==
    LET edge == P.ut[k].nodes[p].e[i]
    IN IF (k = "m" \/ edge.p = Null) /\ edge.w # ZERO THEN releaseCached(P, edge.w)
       ELSE P
RECURSIVE normalizeDrop(_, _, _, _)
normalizeDrop(P, k, p, i) ==
    IF i = NEdgesOf(k) THEN P
    ELSE normalizeDrop(normalizeDropEdge(P, k, p, i), k, p, i + 1)

\* normalize, argmax == -1: [P, ret]
normalizeAllZero(P, k, p, cached) ==
    [P |-> IF cached THEN normalizeDrop(P, k, p, 0) ELSE returnNode(P, k, p),
     ret |-> EdgeZero]

\* vEdge normalize without the square root: "sum = sum / div"
normalizeVSumOf_NoSqrt(div, other) ==
    IF div = 0 THEN 0 ELSE fxDiv(div + other, div)

\* vEdge normalize: "sum = std::sqrt(sum / div)" for the edges E and argmax
normalizeVSumOf(div, other) ==
    IF div = 0 THEN 0 ELSE fxSqrt(fxDiv(div + other, div))
normalizeVSum(P, E, argmax) ==
    normalizeVSumOf(mag2(P, E[argmax].w),
                    IF argmax = 0 /\ ~(E[1].p = Null \/ equalsZero(P, E[1].w))
                    THEN mag2(P, E[1].w) ELSE 0)

\* vEdge normalize: min.w = cn.lookup(...) and "if (min.w == CN::ZERO) min =
\* vZero"; l the result of the lookup
normalizeVEnd(l, p, rw, argmin) ==
    IF l.P.oob THEN Stop(l.P, EdgeZero)
    ELSE [P |-> [l.P EXCEPT !.ut["v"].nodes[p].e[argmin] =
                                IF l.ret = ZERO THEN EdgeZero ELSE [@ EXCEPT !.w = l.ret]],
          ret |-> [p |-> p, w |-> rw]]

\* vEdge normalize: CN::div(min.w, min.w, r.w) (cached) or CN::div(c, min.w,
\* r.w) with the quotient q, then the lookup
normalizeVQuot(P, p, cached, minw, q, rw, argmin) ==
    normalizeVEnd(cnLookup(IF cached THEN cnStore(P, minw, q) ELSE P, q), p, rw, argmin)

\* vEdge normalize: "if (!zero[argmin])"
normalizeVMin(P, p, cached, zrMin, minw, rw, argmin) ==
    IF zrMin THEN [P |-> P, ret |-> [p |-> p, w |-> rw]]
    ELSE normalizeVQuot(IF cached THEN releaseCached(P, minw) ELSE getTempCachedComplex(P),
                        p, cached, minw, divValue(cnValue(P, minw), cnValue(P, rw)),
                        rw, argmin)

\* vEdge normalize: max.w = cn.lookup(1.0 / sum, 0.) and "if (max.w ==
\* CN::ZERO) max = vZero"; l the result of the lookup
normalizeVMax(l, p, cached, zrMin, rw, argmax) ==
    IF l.P.oob THEN Stop(l.P, EdgeZero)
    ELSE normalizeVMin([l.P EXCEPT !.ut["v"].nodes[p].e[argmax] =
                                       IF l.ret = ZERO THEN EdgeZero
                                       ELSE [@ EXCEPT !.w = l.ret]],
                       p, cached, zrMin,
                       l.P.ut["v"].nodes[p].e[(argmax + 1) % 2].w, rw, (argmax + 1) % 2)

\* vEdge normalize: the weight r.w is settled (t = [P, ret] with ret = r.w)
normalizeVTop(t, p, cached, zrMin, inPlace, argmax, s) ==
    IF t.P.oob THEN Stop(t.P, EdgeZero)
    ELSE IF ~inPlace /\ equalsZero(t.P, t.ret) THEN [P |-> t.P, ret |-> EdgeZero]
    ELSE normalizeVMax(cnLookup(t.P, [r |-> fxDiv(Scale, s), i |-> 0]),
                       p, cached, zrMin, t.ret, argmax)

\* vEdge normalize, from "sum = sqrt(sum / div)" on, s the value of sum
normalizeVScale(P, p, cached, argmax, s, maxw, zrMin) ==
    IF s = 0 THEN Stop(P, EdgeZero)
    ELSE normalizeVTop(
             IF cached /\ maxw # ONE
             THEN [P |-> cnStore(P, maxw, [r |-> fxMul(cnVal(P, maxw.r), s),
                                           i |-> fxMul(cnVal(P, maxw.i), s)]),
                   ret |-> maxw]
             ELSE cnLookup(P, [r |-> fxMul(cnVal(P, maxw.r), s),
                               i |-> fxMul(cnVal(P, maxw.i), s)]),
             p, cached, zrMin, cached /\ maxw # ONE, argmax, s)

\* vEdge normalize: the loop that determines argmax, and the rest
normalizeVPick(P, p, cached, E, live0, live1) ==
    IF P.oob THEN Stop(P, EdgeZero)
    ELSE IF live0 \/ live1
    THEN normalizeVScale(P, p, cached, IF live0 THEN 0 ELSE 1,
                         normalizeVSum(P, E, IF live0 THEN 0 ELSE 1),
                         E[IF live0 THEN 0 ELSE 1].w,
                         equalsZero(P, E[IF live0 THEN 1 ELSE 0].w))
    ELSE normalizeAllZero(P, "v", p, cached)

normalizeVLive(P, p, cached, E) ==
    normalizeVPick(P, p, cached, E,
                   ~(E[0].p = Null \/ equalsZero(P, E[0].w)),
                   ~(E[1].p = Null \/ equalsZero(P, E[1].w)))

normalizeVSnapped(P, p, cached) == normalizeVLive(P, p, cached, P.ut["v"].nodes[p].e)

\* vEdge normalize(const vEdge& e, bool cached): [P, ret]
normalizeV(P, e, cached) == normalizeVSnapped(normalizeSnap(P, "v", e.p, 0), e.p, cached)

\* mEdge normalize: the loop that determines the edge of maximal magnitude
RECURSIVE normalizeMArgmax(_, _, _, _, _, _)
normalizeMArgmax(P, E, zr, i, argmax, max) ==
    IF i = NEDGE THEN argmax
    ELSE IF zr[i] THEN normalizeMArgmax(P, E, zr, i + 1, argmax, max)
    ELSE IF argmax = -1 \/ mag2(P, E[i].w) - max > P.tol
    THEN normalizeMArgmax(P, E, zr, i + 1, i, mag2(P, E[i].w))
    ELSE normalizeMArgmax(P, E, zr, i + 1, argmax, max)

\* mEdge normalize, i == argmax: the weight r.w (acc.w) takes up maxc
normalizeMWeight(acc, cached, maxc) ==
    IF acc.w = ONE THEN [P |-> acc.P, ret |-> maxc]
    ELSE IF cached
    THEN [P |-> cnStore(acc.P, acc.w, mulValue(cnValue(acc.P, acc.w), cnValue(acc.P, maxc))),
          ret |-> acc.w]
    ELSE cnLookup(getTempCachedComplex(acc.P),
                  mulValue(cnValue(acc.P, acc.w), cnValue(acc.P, maxc)))
normalizeMPivot(t, p, i) ==
    [P |-> IF t.P.oob THEN t.P ELSE [t.P EXCEPT !.ut["m"].nodes[p].e[i].w = ONE],
     w |-> t.ret]

\* mEdge normalize, i != argmax and not zero[i]: the weight w of edge i is
\* divided by maxc
normalizeMQuot(l, p, i) ==
    IF l.P.oob THEN l.P ELSE [l.P EXCEPT !.ut["m"].nodes[p].e[i].w = l.ret]
normalizeMDivide(P, p, cached, maxc, i, w) ==
    normalizeMQuot(
        cnLookup(getTempCachedComplex(IF cached /\ w # ONE THEN releaseCached(P, w) ELSE P),
                 divValue(IF equalsOne(P, w) THEN [r |-> Scale, i |-> 0] ELSE cnValue(P, w),
                          cnValue(P, maxc))),
        p, i)

\* mEdge normalize: one round of the loop that divides each entry by the
\* maximum; acc = [P, w] with w the weight r.w
normalizeMStep(acc, p, cached, zr, argmax, maxc, i, w) ==
    IF i = argmax THEN normalizeMPivot(normalizeMWeight(acc, cached, maxc), p, i)
    ELSE IF zr[i]
    THEN [P |-> [(IF cached /\ w # ZERO THEN releaseCached(acc.P, w) ELSE acc.P)
                    EXCEPT !.ut["m"].nodes[p].e[i] = EdgeZero],
          w |-> acc.w]
    ELSE [P |-> normalizeMDivide(acc.P, p, cached, maxc, i, w), w |-> acc.w]
RECURSIVE normalizeMLoop(_, _, _, _, _, _, _)
normalizeMLoop(acc, p, cached, zr, argmax, maxc, i) ==
    IF acc.P.oob \/ i = NEDGE THEN acc
    ELSE normalizeMLoop(normalizeMStep(acc, p, cached, zr, argmax, maxc, i,
                                       acc.P.ut["m"].nodes[p].e[i].w),
                        p, cached, zr, argmax, maxc, i + 1)

\* mEdge normalize: "return r"
normalizeMEnd(acc, p) ==
    IF acc.P.oob THEN Stop(acc.P, EdgeZero)
    ELSE [P |-> acc.P, ret |-> [p |-> p, w |-> acc.w]]

\* mEdge normalize, argmax determined
normalizeMTop(P, e, cached, zr, argmax, E) ==
    IF P.oob THEN Stop(P, EdgeZero)
    ELSE IF argmax = -1 THEN normalizeAllZero(P, "m", e.p, cached)
    ELSE IF mag2(P, E[argmax].w) = 0 THEN Stop(P, EdgeZero)
    ELSE normalizeMEnd(normalizeMLoop([P |-> P, w |-> e.w], e.p, cached, zr, argmax,
                                      E[argmax].w, 0),
                       e.p)

normalizeMZero(P, e, cached, zr, E) ==
    normalizeMTop(P, e, cached, zr, normalizeMArgmax(P, E, zr, 0, -1, 0), E)

normalizeMSnapped(P, e, cached, E) ==
    normalizeMZero(P, e, cached, [i \in Slots("m") |-> equalsZero(P, E[i].w)], E)

\* mEdge normalize(const mEdge& e, bool cached): [P, ret]
normalizeMFrom(P, e, cached) == normalizeMSnapped(P, e, cached, P.ut["m"].nodes[e.p].e)
normalizeM(P, e, cached) == normalizeMFrom(normalizeSnap(P, "m", e.p, 0), e, cached)

normalize(P, k, e, cached) ==
    IF k = "v" THEN normalizeV(P, e, cached) ELSE normalizeM(P, e, cached)

\* whether the successors of a node of level var are on level var - 1 or terminal
SuccessorsFit(P, k, var, edges) ==
    \A i \in Slots(k) :
        edges[i].p = Terminal \/ (edges[i].p # Null /\ P.ut[k].nodes[edges[i].p].v = var - 1)

RECURSIVE makeDDNode(_, _, _, _, _)
RECURSIVE transpose(_, _)

\* checkSpecialMatrices: "check if matrix resembles identity", t the result
\* of transpose(p->e[1])
checkIdent(t, p) ==
    IF t.P.oob \/ t.ret # t.P.ut["m"].nodes[p].e[2] THEN t.P
    ELSE [t.P EXCEPT !.ut["m"].nodes[p].symm = TRUE,
                     !.ut["m"].nodes[p].ident =
                         /\ NodeAt(t.P, "m", t.P.ut["m"].nodes[p].e[0].p).ident
                         /\ t.P.ut["m"].nodes[p].e[1].w = ZERO
                         /\ t.P.ut["m"].nodes[p].e[2].w = ZERO
                         /\ t.P.ut["m"].nodes[p].e[0].w = ONE
                         /\ t.P.ut["m"].nodes[p].e[3].w = ONE
                         /\ NodeAt(t.P, "m", t.P.ut["m"].nodes[p].e[3].p).ident]

\* checkSpecialMatrices: "check if matrix is symmetric"
checkSymm(P, p) ==
    IF \/ ~NodeAt(P, "m", P.ut["m"].nodes[p].e[0].p).symm
       \/ ~NodeAt(P, "m", P.ut["m"].nodes[p].e[3].p).symm
    THEN P
    ELSE checkIdent(transpose(P, P.ut["m"].nodes[p].e[1]), p)

\* no node is found symmetric or an identity
checkSpecialMatrices_NoFlags(P, p) ==
    IF p = Terminal \/ P.oob THEN P
    ELSE [P EXCEPT !.ut["m"].nodes[p].ident = FALSE, !.ut["m"].nodes[p].symm = FALSE]

\* the flags the memory of the node held are kept, not assumed false
checkSpecialMatrices_KeepFlags(P, p) ==
    IF p = Terminal \/ P.oob THEN P ELSE checkSymm(P, p)

\* void checkSpecialMatrices(mNode* p)
checkSpecialMatrices(P, p) ==
    IF p = Terminal \/ P.oob THEN P
    ELSE checkSymm([P EXCEPT !.ut["m"].nodes[p].ident = FALSE,
                             !.ut["m"].nodes[p].symm = FALSE], p)

\* makeDDNode: "return l"
makeDDNodeRet(P, r) == IF P.oob THEN Stop(P, EdgeZero) ELSE [P |-> P, ret |-> r]

\* makeDDNode: "set specific node properties for matrices", l the result of
\* the lookup of the normalized edge, p its target
makeDDNodeCheck(l, k, p) ==
    IF l.P.oob THEN Stop(l.P, EdgeZero)
    ELSE IF k = "m" /\ l.ret.p = p
    THEN makeDDNodeRet(checkSpecialMatrices(l.P, l.ret.p), l.ret)
    ELSE [P |-> l.P, ret |-> l.ret]

\* makeDDNode: "look it up in the unique tables", nz the normalized edge
makeDDNodeLookup(nz, k) ==
    IF nz.P.oob THEN Stop(nz.P, EdgeZero)
    ELSE makeDDNodeCheck(utLookup(nz.P, k, nz.ret, FALSE), k, nz.ret.p)

\* makeDDNode: the node g.ret got from the unique table is filled in
makeDDNodeFill(P, k, p, var, edges) ==
    [(IF SuccessorsFit(P, k, var, edges) THEN P
      ELSE Flag(P, "makeDDNode: successor on a wrong level"))
        EXCEPT !.ut[k].nodes[p].v = var, !.ut[k].nodes[p].e = atOnce(edges)]
makeDDNodeAt(g, k, var, edges, cached) ==
    IF g.P.oob THEN Stop(g.P, EdgeZero)
    ELSE makeDDNodeLookup(normalize(makeDDNodeFill(g.P, k, g.ret, var, edges), k,
                                    [p |-> g.ret, w |-> ONE], cached),
                          k)

\* Edge<Node> makeDDNode(Qubit var, const std::array<Edge<Node>, N>& edges,
\* bool cached): [P, ret]
makeDDNode(P, k, var, edges, cached) ==
    IF P.oob THEN Stop(P, EdgeZero)
    ELSE makeDDNodeAt(getNode(P, k), k, var, edges, cached)

\* transpose with the weight of the operand dropped
transposeEnd_UnitWeight(l, a, p) ==
    IF l.P.oob THEN Stop(l.P, EdgeZero)
    ELSE [P |-> tabInsert(l.P, "matrixTranspose", a, a, [p |-> p, w |-> ONE]),
          ret |-> [p |-> p, w |-> ONE]]

\* transpose: "adjust top weight" and "put in compute table", l the result of
\* the lookup of the weight
transposeEnd(l, a, p) ==
    IF l.P.oob THEN Stop(l.P, EdgeZero)
    ELSE [P |-> tabInsert(l.P, "matrixTranspose", a, a, [p |-> p, w |-> l.ret]),
          ret |-> [p |-> p, w |-> l.ret]]
transposeTop_KeepWeight(mk, a) ==
    IF mk.P.oob THEN Stop(mk.P, EdgeZero)
    ELSE transposeEnd(cnLookup(getTempCachedComplex(mk.P), cnValue(mk.P, a.w)),
                      a, mk.ret.p)
transposeTop(mk, a) ==
    IF mk.P.oob THEN Stop(mk.P, EdgeZero)
    ELSE transposeEnd(cnLookup(getTempCachedComplex(mk.P),
                               mulValue(cnValue(mk.P, mk.ret.w), cnValue(mk.P, a.w))),
                      a, mk.ret.p)

\* transpose: "transpose sub-matrices and rearrange as required";
\* acc = [P, e] with e the edges set so far
transposePut(acc, t, j) == [P |-> t.P, e |-> [acc.e EXCEPT ![j] = t.ret]]
RECURSIVE transposeLoop(_, _, _)
transposeLoop(acc, a, j) ==
    IF acc.P.oob \/ j = NEDGE THEN acc
    ELSE transposeLoop(
             transposePut(acc,
                          transpose(acc.P,
                                    acc.P.ut["m"].nodes[a.p].e[RADIX * (j % RADIX)
                                                               + (j \div RADIX)]),
                          j),
             a, j + 1)

\* transpose: "create new top node"
transposeMake(acc, a) ==
    IF acc.P.oob THEN Stop(acc.P, EdgeZero)
    ELSE transposeTop(makeDDNode(acc.P, "m", acc.P.ut["m"].nodes[a.p].v, acc.e, FALSE), a)

\* transpose: "check in compute table", r the result of the lookup
transposeMiss(P, a, r) ==
    IF r.p # Null THEN [P |-> P, ret |-> r]
    ELSE transposeMake(transposeLoop([P |-> P, e |-> [i \in Slots("m") |-> NullEdge]],
                                     a, 0),
                       a)

\* mEdge transpose(const mEdge& a): [P, ret]
transpose(P, a) ==
    IF P.oob \/ a.p = Null \/ isTerminal(a) THEN [P |-> P, ret |-> a]
    ELSE IF P.ut["m"].nodes[a.p].symm THEN [P |-> P, ret |-> a]
    ELSE transposeMiss(P, a, tabLookup(P, "matrixTranspose", a, a))

\* ------------------------------------------------------------------------
\* Package: the arguments of a construction
\* ------------------------------------------------------------------------

\* the value for which the client passes Edge::zero
NoWeight == [r |-> 0, i |-> 0]

\* the weights of an edge array: cn.lookup(w) or cn.getCached(w) for each
RECURSIVE takeWeights(_, _, _, _, _)
takeWeightsPut(w, rest) == [P |-> rest.P, ret |-> <<w>> \o rest.ret]
takeWeightsNext(l, k, ws, i, cached) ==
    takeWeightsPut(l.ret, takeWeights(l.P, k, ws, i + 1, cached))
takeWeights(P, k, ws, i, cached) ==
    IF i = NEdgesOf(k) \/ P.oob THEN [P |-> P, ret |-> [j \in 1..(NEdgesOf(k) - i) |-> ZERO]]
    ELSE takeWeightsNext(IF ws[i + 1] = NoWeight THEN [P |-> P, ret |-> ZERO]
                         ELSE IF cached THEN getCachedComplexOf(P, ws[i + 1])
                         ELSE cnLookup(P, ws[i + 1]),
                         k, ws, i, cached)

\* the edge array of weights ws and targets ts
edgesOf(k, ws, ts, taken) ==
    [i \in Slots(k) |-> IF ws[i + 1] = NoWeight THEN EdgeZero
                        ELSE [p |-> ts[i + 1], w |-> taken[i + 1]]]

\* ------------------------------------------------------------------------
\* Package: addition
\* ------------------------------------------------------------------------

\* Complex addCached(a, b), mulCached(a, b): [P, ret]
addCached(P, a, b) == getCachedComplexOf(P, addValue(cnValue(P, a), cnValue(P, b)))
mulCached(P, a, b) == getCachedComplexOf(P, mulValue(cnValue(P, a), cnValue(P, b)))

\* equalsZero of a ComplexValue
valueEqualsZero(P, x) == Abs(x.r) < P.tol /\ Abs(x.i) < P.tol

\* the edge {p, c.ret} in the package c.P
edgeTo(c, p) ==
    IF c.P.oob THEN Stop(c.P, EdgeZero) ELSE [P |-> c.P, ret |-> [p |-> p, w |-> c.ret]]

\* a copy that takes the weight ONE
cachedCopy_Unit(P, y) == edgeTo(getCachedComplexOf(P, [r |-> Scale, i |-> 0]), y.p)

\* "r.w = cn.getCachedComplex(CN::val(y.w.r), CN::val(y.w.i))"
cachedCopy(P, y) == edgeTo(getCachedComplexOf(P, cnValue(P, y.w)), y.p)

\* a result found in a compute table that stores CachedEdges
cachedResult(P, r) ==
    IF valueEqualsZero(P, r.w) THEN [P |-> P, ret |-> EdgeZero]
    ELSE edgeTo(getCachedComplexOf(P, r.w), r.p)

\* the level of the node an edge points at (-1 for the terminal)
levelOf(P, k, e) == NodeAt(P, k, e.p).v

AddTable(k) == IF k = "v" THEN "vectorAdd" ELSE "matrixAdd"

RECURSIVE add2(_, _, _, _)

\* add2, x.p == y.p: "r.w = cn.addCached(x.w, y.w)"; c the sum
add2Same(c, p) ==
    IF c.P.oob THEN Stop(c.P, EdgeZero)
    ELSE IF equalsZero(c.P, c.ret) THEN [P |-> releaseCached(c.P, c.ret), ret |-> EdgeZero]
    ELSE [P |-> c.P, ret |-> [p |-> p, w |-> c.ret]]

\* add2, the operand of the recursion taken from x (other the second
\* operand): [P, ret, own] with own telling that ret.w is to be released
add2Scaled(c, p) == [P |-> c.P, ret |-> [p |-> p, w |-> c.ret], own |-> TRUE]
add2Operand(P, k, x, other, w, i) ==
    IF ~isTerminal(x) /\ levelOf(P, k, x) = w
    THEN IF P.ut[k].nodes[x.p].e[i].w # ZERO
         THEN add2Scaled(mulCached(P, P.ut[k].nodes[x.p].e[i].w, x.w),
                         P.ut[k].nodes[x.p].e[i].p)
         ELSE [P |-> P, ret |-> P.ut[k].nodes[x.p].e[i], own |-> FALSE]
    ELSE [P |-> P,
          ret |-> IF NodeAt(P, k, other.p).e[i].p = Null THEN NullEdge ELSE x,
          own |-> FALSE]

\* add2: "edge[i] = add2(e1, e2)" and the release of e1.w and e2.w
add2Release(P, o) == IF o.own /\ ~P.oob THEN releaseCached(P, o.ret.w) ELSE P
add2Put(acc, r, o1, o2, i) ==
    [P |-> add2Release(add2Release(r.P, o1), o2), e |-> [acc.e EXCEPT ![i] = r.ret]]
add2Second(acc, k, o1, o2, i) ==
    IF o2.P.oob THEN [P |-> o2.P, e |-> acc.e]
    ELSE add2Put(acc, add2(o2.P, k, o1.ret, o2.ret), o1, o2, i)
add2First(acc, k, x, y, w, i, o1) ==
    IF o1.P.oob THEN [P |-> o1.P, e |-> acc.e]
    ELSE add2Second(acc, k, o1, add2Operand(o1.P, k, y, x, w, i), i)
RECURSIVE add2Loop(_, _, _, _, _, _)
add2Loop(acc, k, x, y, w, i) ==
    IF acc.P.oob \/ i = NEdgesOf(k) THEN acc
    ELSE add2Loop(add2First(acc, k, x, y, w, i, add2Operand(acc.P, k, x, y, w, i)),
                  k, x, y, w, i + 1)

\* add2: "auto e = makeDDNode(w, edge, true)" and the insertion
add2Insert(mk, k, x, y) ==
    IF mk.P.oob THEN Stop(mk.P, EdgeZero)
    ELSE [P |-> tabInsert(mk.P, AddTable(k), CachedEdgeOf(mk.P, x), CachedEdgeOf(mk.P, y),
                          CachedEdgeOf(mk.P, mk.ret)),
          ret |-> mk.ret]
add2Make(acc, k, x, y, w) ==
    IF acc.P.oob THEN Stop(acc.P, EdgeZero)
    ELSE add2Insert(makeDDNode(acc.P, k, w, acc.e, TRUE), k, x, y)

\* add2: the compute table was looked up with the result r
add2Miss(P, k, x, y, r) ==
    IF r.p # Null THEN cachedResult(P, r)
    ELSE add2Make(add2Loop([P |-> P, e |-> [i \in Slots(k) |-> NullEdge]], k, x, y,
                           IF isTerminal(x) THEN levelOf(P, k, y)
                           ELSE Max(levelOf(P, k, x), levelOf(P, k, y)), 0),
                  k, x, y,
                  IF isTerminal(x) THEN levelOf(P, k, y)
                  ELSE Max(levelOf(P, k, x), levelOf(P, k, y)))

\* Edge<Node> add2(const Edge<Node>& x, const Edge<Node>& y): [P, ret]
add2(P, k, x, y) ==
    IF P.oob THEN Stop(P, EdgeZero)
    ELSE IF x.p = Null THEN [P |-> P, ret |-> y]
    ELSE IF y.p = Null THEN [P |-> P, ret |-> x]
    ELSE IF x.w = ZERO
    THEN IF y.w = ZERO THEN [P |-> P, ret |-> y] ELSE cachedCopy(P, y)
    ELSE IF y.w = ZERO THEN cachedCopy(P, x)
    ELSE IF x.p = y.p THEN add2Same(addCached(P, x.w, y.w), y.p)
    ELSE add2Miss(P, k, x, y,
                  tabLookup(P, AddTable(k), CachedEdgeOf(P, x), CachedEdgeOf(P, y)))

\* the caller of a cached construction: "if (result.w != ZERO) {
\* cn.releaseCached(result.w); result.w = cn.lookup(result.w); }"
internPut(l, p) ==
    IF l.P.oob THEN Stop(l.P, EdgeZero) ELSE [P |-> l.P, ret |-> [p |-> p, w |-> l.ret]]
internWeight_NoRelease(t) ==
    IF t.P.oob \/ t.ret.w = ZERO THEN t
    ELSE internPut(cnLookup(t.P, cnValue(t.P, t.ret.w)), t.ret.p)
internWeight(t) ==
    IF t.P.oob \/ t.ret.w = ZERO THEN t
    ELSE internPut(cnLookup(releaseCached(t.P, t.ret.w), cnValue(t.P, t.ret.w)), t.ret.p)

\* the caller of add2, kronecker2: the weight of the result is interned;
\* count is the value of cn.cacheCount on entry
assertBalanced(t, count, what) ==
    IF t.P.oob \/ t.P.cacheCount = count THEN t
    ELSE [P |-> Flag(t.P, what), ret |-> t.ret]

\* Edge add(const Edge& x, const Edge& y): [P, ret]
add(P, k, x, y) ==
    assertBalanced(internWeight(add2(P, k, x, y)), P.cacheCount, "add: after != before")

\* ------------------------------------------------------------------------
\* Package: identities, gates, states
\* ------------------------------------------------------------------------

\* the edges {a, mZero, mZero, d}
diag(a, d) == [i \in Slots("m") |-> IF i = 0 THEN a ELSE IF i = 3 THEN d ELSE EdgeZero]

\* makeIdent: "e = makeMatrixNode(k, {e, mZero, mZero, e})" for k up to msq
RECURSIVE identLoop(_, _, _)
identLoop(t, k, msq) ==
    IF t.P.oob \/ k > msq THEN t
    ELSE identLoop(makeDDNode(t.P, "m", k, diag(t.ret, t.ret), FALSE), k + 1, msq)

\* makeIdent: the entry of IdTable is set
identStore(t, msq, store) ==
    IF t.P.oob THEN Stop(t.P, EdgeZero)
    ELSE [P |-> IF store THEN [t.P EXCEPT !.idTable[msq] = t.ret] ELSE t.P, ret |-> t.ret]

\* mEdge makeIdent(Qubit leastSignificantQubit, Qubit mostSignificantQubit)
makeIdent(P, lsq, msq) ==
    IF msq < 0 THEN [P |-> P, ret |-> EdgeOne]
    ELSE IF lsq = 0 /\ P.idTable[msq].p # Null THEN [P |-> P, ret |-> P.idTable[msq]]
    ELSE identStore(identLoop([P |-> P,
                               ret |-> IF msq >= 1 /\ P.idTable[msq - 1].p # Null
                                       THEN P.idTable[msq - 1] ELSE EdgeOne],
                              IF msq >= 1 /\ P.idTable[msq - 1].p # Null THEN msq ELSE lsq,
                              msq),
                    msq, lsq = 0 \/ (msq >= 1 /\ P.idTable[msq - 1].p # Null))

\* makeIdent(static_cast<Qubit>(z - 1)) as Package.cpp calls it: the identity
\* up to the most significant qubit msq
makeIdentMsq(P, msq) == makeIdent(P, 0, msq)

\* makeGateDD: the successors of the node built on line z with the tag
\* line[z]: the target folds the four entries em, a control puts the
\* identity idn next to the entry inner, an unconnected line doubles inner
gateEdges(tag, inner, idn, em) ==
    IF tag = 2 THEN em
    ELSE IF tag = 0 THEN diag(inner, idn)
    ELSE IF tag = 1 THEN diag(idn, inner)
    ELSE diag(inner, inner)
gateMake(idn, z, tag, inner, em) ==
    IF idn.P.oob THEN Stop(idn.P, EdgeZero)
    ELSE makeDDNode(idn.P, "m", z, gateEdges(tag, inner, idn.ret, em), FALSE)

\* makeGateDD: "(i1 == i2) ? makeIdent(z - 1) : mZero" below the target,
\* makeIdent(z - 1) above it
gateIdent(P, tag, z, tgt, i) ==
    IF tag \in {0, 1} /\ (z > tgt \/ i \div RADIX = i % RADIX) THEN makeIdentMsq(P, z - 1)
    ELSE [P |-> P, ret |-> EdgeZero]

\* makeGateDD: one makeMatrixNode; acc = [P, em, e] with em the four entries
\* and e the edge built from the target line on
gatePut(acc, mk, z, tgt, i) ==
    IF mk.P.oob THEN [P |-> mk.P, em |-> acc.em, e |-> acc.e]
    ELSE IF z < tgt THEN [P |-> mk.P, em |-> [acc.em EXCEPT ![i] = mk.ret], e |-> acc.e]
    ELSE [P |-> mk.P, em |-> acc.em, e |-> mk.ret]
gateStep(acc, line, tgt, z, i) ==
    gatePut(acc,
            gateMake(gateIdent(acc.P, line[z], z, tgt, i), z, line[z],
                     IF z < tgt THEN acc.em[i] ELSE acc.e, acc.em),
            z, tgt, i)
RECURSIVE gateLoop(_, _, _, _, _, _)
gateLoop(acc, line, tgt, msq, z, i) ==
    IF acc.P.oob \/ z > msq THEN acc
    ELSE gateLoop(gateStep(acc, line, tgt, z, i), line, tgt, msq,
                  IF z < tgt /\ i < NEDGE - 1 THEN z ELSE z + 1,
                  IF z < tgt /\ i < NEDGE - 1 THEN i + 1 ELSE 0)

\* makeGateDD: the terminals of the four entries of mat
gateStart(tw, mat) ==
    [P |-> tw.P,
     em |-> edgesOf("m", mat, [i \in 1..NEDGE |-> Terminal], tw.ret),
     e |-> NullEdge]
gateEnd(acc) == IF acc.P.oob THEN Stop(acc.P, EdgeZero) ELSE [P |-> acc.P, ret |-> acc.e]

\* the line of the target
TargetOf(line) ==
    CHOOSE z \in DOMAIN line : line[z] = 2 /\ \A y \in DOMAIN line : line[y] = 2 => z <= y

\* mEdge makeGateDD(mat, mostSignificantQubit, line): [P, ret]
makeGateDD(P, mat, msq, line) ==
    gateEnd(gateLoop(gateStart(takeWeights(P, "m", mat, 0, FALSE), mat), line,
                     TargetOf(line), msq, 0, 0))

\* the weights of the two successors of a node of a basis state
BasisStates == {"zero", "one", "plus", "minus", "right", "left"}
basisWeights(s) ==
    IF s = "plus" THEN <<[r |-> SQRT2_2, i |-> 0], [r |-> SQRT2_2, i |-> 0]>>
    ELSE IF s = "minus" THEN <<[r |-> SQRT2_2, i |-> 0], [r |-> -SQRT2_2, i |-> 0]>>
    ELSE IF s = "right" THEN <<[r |-> SQRT2_2, i |-> 0], [r |-> 0, i |-> SQRT2_2]>>
    ELSE IF s = "left" THEN <<[r |-> SQRT2_2, i |-> 0], [r |-> 0, i |-> -SQRT2_2]>>
    ELSE <<NoWeight, NoWeight>>
basisEdges(f, s, taken) ==
    IF s = "zero" THEN [i \in Slots("v") |-> IF i = 0 THEN f ELSE EdgeZero]
    ELSE IF s = "one" THEN [i \in Slots("v") |-> IF i = 1 THEN f ELSE EdgeZero]
    ELSE [i \in Slots("v") |-> [p |-> f.p, w |-> taken[i + 1]]]
basisNode(tw, f, s, p) ==
    IF tw.P.oob THEN Stop(tw.P, EdgeZero)
    ELSE makeDDNode(tw.P, "v", p, basisEdges(f, s, tw.ret), FALSE)
RECURSIVE basisLoop(_, _, _, _)
basisLoop(t, state, p, msq) ==
    IF t.P.oob \/ p > msq THEN t
    ELSE basisLoop(basisNode(takeWeights(t.P, "v", basisWeights(state[p + 1]), 0, FALSE),
                             t.ret, state[p + 1], p),
                   state, p + 1, msq)

\* makeBasisState testing the length of the sequence only when it runs out
makeBasisState_LateCheck(P, msq, state) ==
    IF Len(state) < msq + 1
    THEN [P |-> Flag(basisLoop([P |-> P, ret |-> EdgeOne], state, 0, Len(state) - 1).P,
                     "makeBasisState: insufficient qubit states"),
          ret |-> EdgeZero]
    ELSE basisLoop([P |-> P, ret |-> EdgeOne], state, 0, msq)

\* vEdge makeBasisState(Qubit mostSignificantQubit, const
\* std::vector<BasisStates>& state): [P, ret]
makeBasisState(P, msq, state) ==
    IF Len(state) < msq + 1
    THEN [P |-> Flag(P, "makeBasisState: insufficient qubit states"), ret |-> EdgeZero]
    ELSE basisLoop([P |-> P, ret |-> EdgeOne], state, 0, msq)

\* vEdge makeZeroState(Qubit mostSignificantQubit): [P, ret]
makeZeroState(P, msq) == makeBasisState(P, msq, [p \in 1..(msq + 1) |-> "zero"])

\* ------------------------------------------------------------------------
\* Package: multiplication
\* ------------------------------------------------------------------------

MulTable(ky) ==
    IF ky = "v" THEN "matrixVectorMultiplication" ELSE "matrixMultiplication"

\* xCopy, yCopy: the operand with the weight ONE
stripped(e) == [p |-> e.p, w |-> ONE]

\* "if (CN::equalsZero(e.w)) { cn.releaseCached(e.w); return zero; } return e"
zeroOrEdge(P, e) ==
    IF P.oob THEN Stop(P, EdgeZero)
    ELSE IF equalsZero(P, e.w) THEN [P |-> releaseCached(P, e.w), ret |-> EdgeZero]
    ELSE [P |-> P, ret |-> e]

\* "CN::mul(e.w, e.w, x.w); CN::mul(e.w, e.w, y.w)" and the test for zero
rescaled(P, e, xw, yw) ==
    zeroOrEdge(cnStore(P, e.w, mulValue(mulValue(cnValue(P, e.w), cnValue(P, xw)),
                                        cnValue(P, yw))),
               e)

\* "e.w = cn.mulCached(x.w, y.w)" and the test for zero
scaledBy(c, p) == zeroOrEdge(c.P, [p |-> p, w |-> c.ret])

multiplyHit_Unscaled(c, p, xw, yw) ==
    IF c.P.oob THEN Stop(c.P, EdgeZero) ELSE [P |-> c.P, ret |-> [p |-> p, w |-> c.ret]]

\* multiply2: a result r found in the compute table
multiplyHit(c, p, xw, yw) ==
    IF c.P.oob THEN Stop(c.P, EdgeZero) ELSE rescaled(c.P, [p |-> p, w |-> c.ret], xw, yw)

\* the fast path with the weight of the right operand taken twice
multiplyFast_Squared(t, ky, x, y) ==
    IF t.P.oob THEN Stop(t.P, EdgeZero)
    ELSE scaledBy(mulCached(tabInsert(t.P, MulTable(ky), stripped(x), stripped(y),
                                      CachedEdgeOf(t.P, t.ret)),
                            y.w, y.w),
                  t.ret.p)

\* multiply2: the fast paths for identities, e the result with weight ONE
multiplyFast(t, ky, x, y) ==
    IF t.P.oob THEN Stop(t.P, EdgeZero)
    ELSE scaledBy(mulCached(tabInsert(t.P, MulTable(ky), stripped(x), stripped(y),
                                      CachedEdgeOf(t.P, t.ret)),
                            x.w, y.w),
                  t.ret.p)

RECURSIVE multiply2(_, _, _, _, _)

\* the left operand read column by column
multiplyLeft_Transposed(P, ky, x, var, idx, k) ==
    IF ~isTerminal(x) /\ levelOf(P, "m", x) = var
    THEN P.ut["m"].nodes[x.p].e[(IF ky = "v" THEN idx ELSE idx \div RADIX) + RADIX * k]
    ELSE stripped(x)

\* multiply2: the operands e1 and e2 of the product k of the entry idx
multiplyLeft(P, ky, x, var, idx, k) ==
    IF ~isTerminal(x) /\ levelOf(P, "m", x) = var
    THEN P.ut["m"].nodes[x.p].e[RADIX * (IF ky = "v" THEN idx ELSE idx \div RADIX) + k]
    ELSE stripped(x)
multiplyRight(P, ky, y, var, idx, k) ==
    IF ~isTerminal(y) /\ levelOf(P, ky, y) = var
    THEN P.ut[ky].nodes[y.p].e[IF ky = "v" THEN k ELSE (idx % RADIX) + RADIX * k]
    ELSE stripped(y)

\* multiply2: "edge[i] = add2(edge[i], m)" with the release of both weights
multiplySum(a, acc, m, idx) ==
    [P |-> IF a.P.oob THEN a.P
           ELSE releaseCached(releaseCached(a.P, acc.e[idx].w), m.w),
     e |-> [acc.e EXCEPT ![idx] = a.ret]]

\* multiply2: the product m is taken up in edge[idx]
multiplyPut(acc, ky, m, idx, k) ==
    IF m.P.oob THEN [P |-> m.P, e |-> acc.e]
    ELSE IF k = 0 \/ acc.e[idx].w = ZERO
    THEN [P |-> m.P, e |-> [acc.e EXCEPT ![idx] = m.ret]]
    ELSE IF m.ret.w # ZERO
    THEN multiplySum(add2(m.P, ky, acc.e[idx], m.ret), acc, m.ret, idx)
    ELSE [P |-> m.P, e |-> acc.e]

\* multiply2: the loops over the entries and the products; n counts both
RECURSIVE multiplyLoop(_, _, _, _, _, _)
multiplyLoop(acc, ky, x, y, var, n) ==
    IF acc.P.oob \/ n = RADIX * NEdgesOf(ky) THEN acc
    ELSE multiplyLoop(
             multiplyPut(acc, ky,
                         multiply2(acc.P, ky,
                                   multiplyLeft(acc.P, ky, x, var, n \div RADIX, n % RADIX),
                                   multiplyRight(acc.P, ky, y, var, n \div RADIX, n % RADIX),
                                   var - 1),
                         n \div RADIX, n % RADIX),
             ky, x, y, var, n + 1)

\* multiply2: the insertion and the weights of the operands
multiplyScale(P, e, x, y) ==
    IF e.w # ZERO /\ (x.w # ONE \/ y.w # ONE)
    THEN IF e.w = ONE THEN scaledBy(mulCached(P, x.w, y.w), e.p)
         ELSE rescaled(P, e, x.w, y.w)
    ELSE [P |-> P, ret |-> e]
multiplyEnd(mk, ky, x, y) ==
    IF mk.P.oob THEN Stop(mk.P, EdgeZero)
    ELSE multiplyScale(tabInsert(mk.P, MulTable(ky), stripped(x), stripped(y),
                                 CachedEdgeOf(mk.P, mk.ret)),
                       mk.ret, x, y)
multiplyMake(acc, ky, x, y, var) ==
    IF acc.P.oob THEN Stop(acc.P, EdgeZero)
    ELSE multiplyEnd(makeDDNode(acc.P, ky, var, acc.e, TRUE), ky, x, y)

\* multiply2 past the compute table
multiplyMiss(P, ky, x, y, var) ==
    IF levelOf(P, "m", x) = var /\ levelOf(P, ky, y) = var /\ P.ut["m"].nodes[x.p].ident
    THEN multiplyFast(IF ky = "m" /\ P.ut["m"].nodes[y.p].ident THEN makeIdentMsq(P, var)
                      ELSE [P |-> P, ret |-> stripped(y)],
                      ky, x, y)
    ELSE IF /\ ky = "m" /\ levelOf(P, "m", x) = var /\ levelOf(P, ky, y) = var
            /\ P.ut["m"].nodes[y.p].ident
    THEN multiplyFast([P |-> P, ret |-> stripped(x)], ky, x, y)
    ELSE multiplyMake(multiplyLoop([P |-> P, e |-> [i \in Slots(ky) |-> EdgeZero]],
                                   ky, x, y, var, 0),
                      ky, x, y, var)

\* multiply2: the compute table was looked up with the result r
multiplyFound(P, ky, x, y, var, r) ==
    IF r.p = Null THEN multiplyMiss(P, ky, x, y, var)
    ELSE IF valueEqualsZero(P, r.w) THEN [P |-> P, ret |-> EdgeZero]
    ELSE multiplyHit(getCachedComplexOf(P, r.w), r.p, x.w, y.w)

\* multiply2(const mEdge& x, const vEdge& y, Qubit var) and multiply2(const
\* mEdge& x, const mEdge& y, Qubit var): [P, ret]; ky the kind of y
multiply2(P, ky, x, y, var) ==
    IF P.oob THEN Stop(P, EdgeZero)
    ELSE IF x.p = Null THEN [P |-> P, ret |-> NullEdge]
    ELSE IF y.p = Null THEN [P |-> P, ret |-> y]
    ELSE IF x.w = ZERO \/ y.w = ZERO THEN [P |-> P, ret |-> EdgeZero]
    ELSE IF var = -1 THEN edgeTo(mulCached(P, x.w, y.w), Terminal)
    ELSE multiplyFound(P, ky, x, y, var,
                       tabLookup(P, MulTable(ky), stripped(x), stripped(y)))

\* "if (e.w != CN::ZERO && e.w != CN::ONE) { cn.releaseCached(e.w); e.w =
\* cn.lookup(e.w); }"
internUnlessOne(t) == IF ~t.P.oob /\ t.ret.w = ONE THEN t ELSE internWeight(t)

\* RightOperand multiply(const LeftOperand& x, const RightOperand& y)
multiply(P, ky, x, y) ==
    assertBalanced(internUnlessOne(multiply2(P, ky, x, y,
                                             Max(levelOf(P, "m", x), levelOf(P, ky, y)))),
                   P.cacheCount, "multiply: before != after")

\* ------------------------------------------------------------------------
\* Package: Kronecker product
\* ------------------------------------------------------------------------

KronTable(k) == IF k = "v" THEN "vectorKronecker" ELSE "matrixKronecker"

RECURSIVE kronecker2(_, _, _, _)

\* kronecker2, x.p->ident: "auto e = makeDDNode(y.p->v + 1, {y, zero, zero,
\* y}); for (auto i = 0; i < x.p->v; ++i) e = makeDDNode(e.p->v + 1, {e,
\* zero, zero, e})": n nodes in all
RECURSIVE kronIdentLoop(_, _, _)
kronIdentLoop(t, i, n) ==
    IF t.P.oob \/ i >= n THEN t
    ELSE kronIdentLoop(makeDDNode(t.P, "m", levelOf(t.P, "m", t.ret) + 1,
                                  diag(t.ret, t.ret), FALSE),
                       i + 1, n)

\* kronecker2: "computeTable.insert(x, y, {e.p, e.w}); return e" with e.w = c
kronInsert(c, p, k, x, y) ==
    IF c.P.oob THEN Stop(c.P, EdgeZero)
    ELSE [P |-> tabInsert(c.P, KronTable(k), x, y, [p |-> p, w |-> cnValue(c.P, c.ret)]),
          ret |-> [p |-> p, w |-> c.ret]]

\* kronecker2, x.p->ident: "e.w = cn.getCachedComplex(CN::val(y.w.r),
\* CN::val(y.w.i))"
kronIdent(t, x, y) ==
    IF t.P.oob THEN Stop(t.P, EdgeZero)
    ELSE kronInsert(getCachedComplexOf(t.P, cnValue(t.P, y.w)), t.ret.p, "m", x, y)

\* kronecker2: "edge[i] = kronecker2(x.p->e[i], y)"
kronPut(acc, r, i) == [P |-> r.P, e |-> [acc.e EXCEPT ![i] = r.ret]]
RECURSIVE kronLoop(_, _, _, _, _)
kronLoop(acc, k, x, y, i) ==
    IF acc.P.oob \/ i = NEdgesOf(k) THEN acc
    ELSE kronLoop(kronPut(acc, kronecker2(acc.P, k, acc.P.ut[k].nodes[x.p].e[i], y), i),
                  k, x, y, i + 1)

\* kronecker2: "CN::mul(e.w, e.w, x.w); computeTable.insert(x, y, {e.p,
\* e.w}); return e"
kronScaled(P, e, k, x, y) ==
    [P |-> tabInsert(P, KronTable(k), x, y, CachedEdgeOf(P, e)), ret |-> e]
kronEnd(mk, k, x, y) ==
    IF mk.P.oob THEN Stop(mk.P, EdgeZero)
    ELSE kronScaled(cnStore(mk.P, mk.ret.w,
                            mulValue(cnValue(mk.P, mk.ret.w), cnValue(mk.P, x.w))),
                    mk.ret, k, x, y)
kronMake(acc, k, x, y) ==
    IF acc.P.oob THEN Stop(acc.P, EdgeZero)
    ELSE kronEnd(makeDDNode(acc.P, k, levelOf(acc.P, k, y) + levelOf(acc.P, k, x) + 1,
                            acc.e, TRUE),
                 k, x, y)

\* kronecker2: the compute table was looked up with the result r
kronFound(P, k, x, y, r) ==
    IF r.p # Null THEN cachedResult(P, r)
    ELSE IF k = "m" /\ P.ut["m"].nodes[x.p].ident
    THEN kronIdent(kronIdentLoop([P |-> P, ret |-> y], 0, levelOf(P, "m", x) + 1), x, y)
    ELSE kronMake(kronLoop([P |-> P, e |-> [i \in Slots(k) |-> EdgeZero]], k, x, y, 0),
                  k, x, y)

\* Edge<Node> kronecker2(const Edge<Node>& x, const Edge<Node>& y): [P,
\* ret]; a product on more than NQ qubits is beyond the model
kronecker2(P, k, x, y) ==
    IF P.oob THEN Stop(P, EdgeZero)
    ELSE IF equalsZero(P, x.w) THEN [P |-> P, ret |-> EdgeZero]
    ELSE IF isTerminal(x) THEN edgeTo(mulCached(P, x.w, y.w), y.p)
    ELSE IF levelOf(P, k, x) + levelOf(P, k, y) + 1 >= NQ THEN Stop(P, EdgeZero)
    ELSE kronFound(P, k, x, y, tabLookup(P, KronTable(k), x, y))

\* Edge kronecker(const Edge& x, const Edge& y): [P, ret]
kronecker(P, k, x, y) == internUnlessOne(kronecker2(P, k, x, y))

\* ------------------------------------------------------------------------
\* Package: (partial) trace
\* ------------------------------------------------------------------------

RECURSIVE traceEliminate(_, _, _, _)

\* trace: "if (r.w == CN::ONE) r.w = a.w; else { auto c =
\* cn.getTempCachedComplex(); CN::mul(c, r.w, a.w); r.w = cn.lookup(c); }"
traceWeight(P, r, a) ==
    IF r.w = ONE THEN [P |-> P, ret |-> [p |-> r.p, w |-> a.w]]
    ELSE internPut(cnLookup(getTempCachedComplex(P),
                            mulValue(cnValue(P, r.w), cnValue(P, a.w))),
                   r.p)

\* trace: "if (r1.w != CN::ZERO) cn.releaseCached(r1.w)", the same for r2
releaseUnlessZero(P, w) == IF w = ZERO THEN P ELSE releaseCached(P, w)
traceRelease(t, r1, r2) ==
    IF t.P.oob THEN Stop(t.P, EdgeZero)
    ELSE [P |-> releaseUnlessZero(releaseUnlessZero(t.P, r1.w), r2.w), ret |-> t.ret]

\* trace, eliminate[v]: t0, r = add2(r, t0), t1, r = add2(r, t1), in turn
traceWeigh(r2, r1, a) ==
    IF r2.P.oob THEN Stop(r2.P, EdgeZero)
    ELSE traceRelease(traceWeight(r2.P, r2.ret, a), r1, r2.ret)
traceThird(t1, r1, a) ==
    IF t1.P.oob THEN Stop(t1.P, EdgeZero)
    ELSE traceWeigh(add2(t1.P, "m", r1, t1.ret), r1, a)
traceSecond(r1, a, eliminate, elims) ==
    IF r1.P.oob THEN Stop(r1.P, EdgeZero)
    ELSE traceThird(traceEliminate(r1.P, r1.P.ut["m"].nodes[a.p].e[3], eliminate, elims),
                    r1.ret, a)
traceFirst(t0, a, eliminate, elims) ==
    IF t0.P.oob THEN Stop(t0.P, EdgeZero)
    ELSE traceSecond(add2(t0.P, "m", EdgeZero, t0.ret), a, eliminate, elims)

\* trace, the qubit is kept: the node with the traces of the successors
traceKeepPut(acc, t, i) == [P |-> t.P, e |-> [acc.e EXCEPT ![i] = t.ret]]
RECURSIVE traceKeepLoop(_, _, _, _, _)
traceKeepLoop(acc, a, eliminate, alreadyEliminated, i) ==
    IF acc.P.oob \/ i = NEDGE THEN acc
    ELSE traceKeepLoop(traceKeepPut(acc,
                                    traceEliminate(acc.P, acc.P.ut["m"].nodes[a.p].e[i],
                                                   eliminate, alreadyEliminated),
                                    i),
                       a, eliminate, alreadyEliminated, i + 1)
traceKeepEnd(mk, a) ==
    IF mk.P.oob THEN Stop(mk.P, EdgeZero) ELSE traceWeight(mk.P, mk.ret, a)
traceKeep(acc, a, adjustedV) ==
    IF acc.P.oob THEN Stop(acc.P, EdgeZero)
    ELSE traceKeepEnd(makeDDNode(acc.P, "m", adjustedV, acc.e, FALSE), a)

\* mEdge trace(const mEdge& a, const std::bitset<MAXN>& eliminate,
\* std::size_t alreadyEliminated): [P, ret]; eliminate the set of the qubits
\* whose bit is set
traceEliminate(P, a, eliminate, alreadyEliminated) ==
    IF P.oob THEN Stop(P, EdgeZero)
    ELSE IF equalsZero(P, a.w) THEN [P |-> P, ret |-> EdgeZero]
    ELSE IF eliminate = {} THEN [P |-> P, ret |-> a]
    ELSE IF levelOf(P, "m", a) = -1 THEN [P |-> P, ret |-> a]
    ELSE IF levelOf(P, "m", a) \in eliminate
    THEN traceFirst(traceEliminate(P, P.ut["m"].nodes[a.p].e[0], eliminate,
                                   alreadyEliminated + 1),
                    a, eliminate, alreadyEliminated + 1)
    ELSE traceKeep(traceKeepLoop([P |-> P, e |-> [i \in Slots("m") |-> EdgeZero]], a,
                                 eliminate, alreadyEliminated, 0),
                   a, levelOf(P, "m", a) - (Cardinality(eliminate) - alreadyEliminated))

\* mEdge partialTrace(const mEdge& a, const std::bitset<MAXN>& eliminate)
partialTrace(P, a, eliminate) ==
    assertBalanced(traceEliminate(P, a, eliminate, 0), P.cacheCount,
                   "partialTrace: before != after")

\* ComplexValue trace(const mEdge& a): [P, ret] with ret the value
traceValue(t) == [P |-> t.P, ret |-> cnValue(t.P, t.ret.w)]
trace(P, a) ==
    traceValue(assertBalanced(partialTrace(P, a, Levels), P.cacheCount,
                              "trace: before != after"))

\* ------------------------------------------------------------------------
\* Package: inner product and fidelity
\* ------------------------------------------------------------------------

ZeroValue == [r |-> 0, i |-> 0]
OneValue == [r |-> Scale, i |-> 0]

RECURSIVE innerProductVar(_, _, _, _)

\* innerProduct: "auto c = cn.getTempCachedComplex(s); CN::mul(c, c, x.w);
\* CN::mul(c, c, y.w); return {CN::val(c.r), CN::val(c.i)}"
innerProductTimes(P, s, x, y) ==
    [P |-> getTempCachedComplex(P),
     ret |-> mulValue(mulValue(s, cnValue(P, x.w)), cnValue(P, y.w))]

\* innerProduct: the operands e1 and e2 of the term i
innerProductLeft(P, x, w, i) ==
    IF ~isTerminal(x) /\ levelOf(P, "v", x) = w THEN P.ut["v"].nodes[x.p].e[i]
    ELSE stripped(x)
innerProductRight(P, y, w, i) ==
    IF ~isTerminal(y) /\ levelOf(P, "v", y) = w
    THEN [p |-> P.ut["v"].nodes[y.p].e[i].p, w |-> conj(P.ut["v"].nodes[y.p].e[i].w)]
    ELSE stripped(y)

\* innerProduct: "sum.r += cv.r; sum.i += cv.i"; acc = [P, sum]
innerProductAdd(acc, cv) == [P |-> cv.P, sum |-> addValue(acc.sum, cv.ret)]
RECURSIVE innerProductLoop(_, _, _, _, _)
innerProductLoop(acc, x, y, w, i) ==
    IF i = RADIX THEN acc
    ELSE innerProductLoop(
             innerProductAdd(acc, innerProductVar(acc.P, innerProductLeft(acc.P, x, w, i),
                                                  innerProductRight(acc.P, y, w, i), w)),
             x, y, w, i + 1)

\* innerProduct: "vectorInnerProduct.insert(xCopy, yCopy, r)" and the weights
innerProductEnd(acc, x, y) ==
    innerProductTimes(tabInsert(acc.P, "vectorInnerProduct", stripped(x), stripped(y),
                                [p |-> Terminal, w |-> acc.sum]),
                      acc.sum, x, y)

\* innerProduct: the compute table was looked up with the result r
innerProductFound(P, x, y, var, r) ==
    IF r.p # Null THEN innerProductTimes(P, r.w, x, y)
    ELSE innerProductEnd(innerProductLoop([P |-> P, sum |-> ZeroValue], x, y, var - 1, 0),
                         x, y)

\* the 0 case
innerProductZero(P, x, y) ==
    x.p = Null \/ y.p = Null \/ equalsZero(P, x.w) \/ equalsZero(P, y.w)

\* ComplexValue innerProduct(const vEdge& x, const vEdge& y, Qubit var):
\* [P, ret] with ret the value
innerProductVar(P, x, y, var) ==
    IF innerProductZero(P, x, y) THEN [P |-> P, ret |-> ZeroValue]
    ELSE IF var = 0
    THEN [P |-> getTempCachedComplex(P),
          ret |-> mulValue(cnValue(P, x.w), cnValue(P, y.w))]
    ELSE innerProductFound(P, x, y, var,
                           tabLookup(P, "vectorInnerProduct", stripped(x), stripped(y)))

\* ComplexValue innerProduct(const vEdge& x, const vEdge& y)
innerProduct(P, x, y) ==
    IF innerProductZero(P, x, y) THEN [P |-> P, ret |-> ZeroValue]
    ELSE assertBalanced(innerProductVar(P, x, y,
                                        Max(levelOf(P, "v", x), levelOf(P, "v", y)) + 1),
                        P.cacheCount, "innerProduct: after != before")

\* fp fidelity(const vEdge& x, const vEdge& y)
fidelityOf(ip) == [P |-> ip.P, ret |-> fxMul(ip.ret.r, ip.ret.r) + fxMul(ip.ret.i, ip.ret.i)]
fidelity(P, x, y) == fidelityOf(innerProduct(P, x, y))

\* ------------------------------------------------------------------------
\* Package: the vector and the matrix an edge stands for
\* ------------------------------------------------------------------------

\* "i | (1 << v)"
withBit(i, v) == IF (i \div (2 ^ v)) % 2 = 1 THEN i ELSE i + 2 ^ v

\* void getVector(const vEdge& e, const Complex& amp, size_t i, CVec& vec):
\* the vector vec after the call; the accumulated amplitude c is taken from
\* the cache lane and given back, amp and c are kept by value
RECURSIVE getVectorAmp(_, _, _, _, _)
getVectorOne(P, e, c, i, vec) ==
    IF ~equalsZero(P, P.ut["v"].nodes[e.p].e[1].w)
    THEN getVectorAmp(P, P.ut["v"].nodes[e.p].e[1], c, withBit(i, levelOf(P, "v", e)), vec)
    ELSE vec
getVectorAt(P, e, c, i, vec) ==
    IF isTerminal(e) THEN [vec EXCEPT ![i] = c]
    ELSE getVectorOne(P, e, c, i,
                      IF ~equalsZero(P, P.ut["v"].nodes[e.p].e[0].w)
                      THEN getVectorAmp(P, P.ut["v"].nodes[e.p].e[0], c, i, vec)
                      ELSE vec)
getVectorAmp(P, e, amp, i, vec) == getVectorAt(P, e, mulValue(cnValue(P, e.w), amp), i, vec)

\* CVec getVector(const vEdge& e)
getVector(P, e) ==
    getVectorAmp(P, e, OneValue, 0,
                 [i \in 0..(2 ^ (levelOf(P, "v", e) + 1) - 1) |-> ZeroValue])

\* void getMatrix(const mEdge& e, const Complex& amp, size_t i, size_t j,
\* CMat& mat): the matrix mat after the call
RECURSIVE getMatrixAmp(_, _, _, _, _, _)
getMatrixSlot(P, e, c, i, j, mat, s) ==
    IF ~equalsZero(P, P.ut["m"].nodes[e.p].e[s].w)
    THEN getMatrixAmp(P, P.ut["m"].nodes[e.p].e[s], c,
                      IF s \div RADIX = 1 THEN withBit(i, levelOf(P, "m", e)) ELSE i,
                      IF s % RADIX = 1 THEN withBit(j, levelOf(P, "m", e)) ELSE j,
                      mat)
    ELSE mat
RECURSIVE getMatrixLoop(_, _, _, _, _, _, _)
getMatrixLoop(P, e, c, i, j, mat, s) ==
    IF s = NEDGE THEN mat
    ELSE getMatrixLoop(P, e, c, i, j, getMatrixSlot(P, e, c, i, j, mat, s), s + 1)
getMatrixAt(P, e, c, i, j, mat) ==
    IF isTerminal(e) THEN [mat EXCEPT ![i][j] = c]
    ELSE getMatrixLoop(P, e, c, i, j, mat, 0)
getMatrixAmp(P, e, amp, i, j, mat) ==
    getMatrixAt(P, e, mulValue(cnValue(P, e.w), amp), i, j, mat)

\* CMat getMatrix(const mEdge& e)
getMatrix(P, e) ==
    getMatrixAmp(P, e, OneValue, 0, 0,
                 [i \in 0..(2 ^ (levelOf(P, "m", e) + 1) - 1) |->
                     [j \in 0..(2 ^ (levelOf(P, "m", e) + 1) - 1) |-> ZeroValue]])

\* ------------------------------------------------------------------------
\* The float pool on its own: lookup, incRef, decRef, garbageCollect, clear
\* ------------------------------------------------------------------------

\* the values looked up: next to zero, on both sides of a bucket boundary
\* (hash(341) = 0, hash(342) = 1), next to one, and beyond one
LookupVals == {1, 341, 342, 1023, 1400}

\* the entries reachable from bucket head p
RECURSIVE chain(_, _)
chain(t, p) == IF p = Null THEN {} ELSE {p} \cup chain(t, EntryAt(t, p).next)

\* the entries linked in the table
Linked(t) == UNION {chain(t, t.table[k]) : k \in 0..CT_MASK}

\* the entries on the free list
FreeEntries(t) == chain(t, t.available)

\* the reference the constructor itself holds on its two entries (0.5 and
\* SQRT2_2, the first two of the arena), which no client may give back
Pinned(e) == IF e \in {EntryAddr(1), EntryAddr(2)} THEN 1 ELSE 0

CtInit ==
    /\ TOLERANCE = DEFAULT_TOLERANCE
    /\ ct = ctConstructed(DEFAULT_TOLERANCE)
    /\ pkg = pkgConstructed(DEFAULT_TOLERANCE)
    /\ roots = {}
    /\ sat = FALSE
    /\ ops = 0

CtLookup ==
    \E v \in LookupVals :
        /\ lookupMisses(ct, v, TOLERANCE) => CanGetEntry(ct)
        /\ ct' = lookup(ct, v, TOLERANCE).ct
        /\ UNCHANGED <<TOLERANCE, pkg, roots, sat, ops>>

CtIncRef ==
    \E e \in Linked(ct), neg \in {0, 1} :
        /\ ct' = incRefEntry(ct, e + neg)
        /\ UNCHANGED <<TOLERANCE, pkg, roots, sat, ops>>

CtDecRef ==
    \E e \in Linked(ct), neg \in {0, 1} :
        /\ EntryAt(ct, e).refCount > Pinned(e)
        /\ ct' = decRefEntry(ct, e + neg)
        /\ UNCHANGED <<TOLERANCE, pkg, roots, sat, ops>>

CtGarbageCollect ==
    \E force \in BOOLEAN :
        /\ ct' = ctGarbageCollect(ct, force).ct
        /\ UNCHANGED <<TOLERANCE, pkg, roots, sat, ops>>

CtClear ==
    /\ ct' = ctClear(ct)
    /\ UNCHANGED <<TOLERANCE, pkg, roots, sat, ops>>

CtNext == CtLookup \/ CtIncRef \/ CtDecRef \/ CtGarbageCollect

vars == <<ct, TOLERANCE, pkg, roots, sat, ops>>

SpecCT == CtInit /\ [][CtNext]_vars

\* ------------------------------------------------------------------------
\* The unique tables of a package: node construction, incRef and decRef of
\* root edges, garbageCollect, reset
\* ------------------------------------------------------------------------

\* pkg is the package; roots is the set of the edges the client holds, each
\* [k, e, n] with n the number of its incRefs not yet given back (n = 0: the
\* edge returned by the latest construction, not yet protected); sat records
\* that a reference count has reached its maximum

\* the weights the client builds edges from
WeightMenu == {[r |-> Scale, i |-> 0], [r |-> SQRT2_2, i |-> 0]}

\* the targets the client can give an edge of a node of level var
TargetsOf(k, var) ==
    LET held == {x.e.p : x \in {y \in roots : y.k = k}} \ {Terminal}
        below == UNION {{pkg.ut[k].nodes[p].e[i].p : i \in Slots(k)} : p \in held}
    IN {Terminal} \cup {p \in (held \cup below) \ {Terminal, Null} :
                           pkg.ut[k].nodes[p].v = var - 1}

\* the edge arrays the client passes: a vector (e0, e1), a matrix with equal
\* diagonals (e0, e1, e1, e0)
Shapes(k) == IF k = "v" THEN {<<0, 1>>} ELSE {<<0, 1, 1, 0>>}

\* the float pool after the lookups of the weights of the edge array
RECURSIVE lookupWeights(_, _, _, _)
lookupWeights(P, k, ws, i) ==
    IF i = NEdgesOf(k) \/ P.oob THEN [P |-> P, ret |-> [j \in 1..(NEdgesOf(k) - i) |-> ZERO]]
    ELSE LET l == IF ws[i + 1] = NoWeight THEN [P |-> P, ret |-> ZERO] ELSE cnLookup(P, ws[i + 1])
             rest == lookupWeights(l.P, k, ws, i + 1)
         IN [P |-> rest.P, ret |-> <<l.ret>> \o rest.ret]

\* some reference count is at its maximum
Saturated(P) ==
    \/ \E k \in Kinds, n \in 1..MaxNode : P.ut[k].nodes[n].ref = RefCountMax
    \/ \E a \in 1..MaxEnt : P.ct.chunks[a].refCount = RefCountMax

\* the free slots of the cache lane, the float entries on the free list and
\* the v and e fields of the nodes on the free lists hold nothing an
\* operation reads: getTempCachedComplex, lookup and makeDDNode overwrite
\* them before use
settle(P) ==
    LET freeSlots == cacheChain(P, P.cache.avail)
        freeEntries == FreeEntries(P.ct)
    IN [P EXCEPT !.cache.val = [j \in DOMAIN P.cache.val |->
                                   IF CacheAddr(j) \in freeSlots THEN 0
                                   ELSE P.cache.val[j]],
                 !.ct.chunks = [a \in DOMAIN P.ct.chunks |->
                                   IF EntryAddr(a) \in freeEntries
                                   THEN [P.ct.chunks[a] EXCEPT !.value = 0]
                                   ELSE P.ct.chunks[a]],
                 !.ut = [k \in Kinds |->
                            [P.ut[k] EXCEPT !.nodes =
                                [n \in 1..MaxNode |->
                                    IF n \in FreeNodes(P, k)
                                    THEN [P.ut[k].nodes[n] EXCEPT
                                             !.v = 0,
                                             !.e = [i \in Slots(k) |-> NullEdge]]
                                    ELSE P.ut[k].nodes[n]]]]]

\* the edges the client holds once a construction has returned e
rootsAfter(e, k) ==
    LET kept == {x \in roots : x.n > 0}
    IN IF \E x \in kept : x.k = k /\ x.e = e THEN kept
       ELSE kept \cup {[k |-> k, e |-> e, n |-> 0]}

UtInit ==
    /\ TOLERANCE = DEFAULT_TOLERANCE
    /\ ct = ctConstructed(DEFAULT_TOLERANCE)
    /\ pkg = pkgConstructed(DEFAULT_TOLERANCE)
    /\ roots = {}
    /\ sat = FALSE
    /\ ops = 0

\* e = makeDDNode(var, {{t0, lookup(w0)}, {t1, lookup(w1)}}) for the targets
\* and weights the client chooses; a zero weight gives Edge::zero
UtMade(mk, k) ==
    /\ ~mk.P.oob
    /\ pkg' = settle(mk.P)
    /\ roots' = rootsAfter(mk.ret, k)
UtMake(lw, k, var, ws, ts) ==
    UtMade(makeDDNode(lw.P, k, var,
                      [i \in Slots(k) |->
                          IF ws[i + 1] = NoWeight THEN EdgeZero
                          ELSE [p |-> ts[i + 1], w |-> lw.ret[i + 1]]],
                      FALSE),
           k)
UtMakeNode ==
    /\ ops < MaxOps
    /\ \E k \in Kinds, var \in Levels :
        \E shape \in Shapes(k), t0 \in TargetsOf(k, var), t1 \in TargetsOf(k, var),
           w0 \in {[r |-> Scale, i |-> 0]}, w1 \in WeightMenu \cup {NoWeight} :
            /\ \A other \in Kinds \ {k} : pkg.ut[other].allocations = 0
            /\ UtMake(lookupWeights(pkg, k,
                                    [i \in 1..NEdgesOf(k) |-> <<w0, w1>>[shape[i] + 1]], 0),
                      k, var,
                      [i \in 1..NEdgesOf(k) |-> <<w0, w1>>[shape[i] + 1]],
                      [i \in 1..NEdgesOf(k) |-> <<t0, t1>>[shape[i] + 1]])
    /\ ops' = ops + 1
    /\ UNCHANGED <<ct, TOLERANCE, sat>>

\* incRef(e) for an edge the client holds
UtIncRef ==
    /\ ops < MaxOps
    /\ \E x \in roots :
        /\ x.n < MaxRootRefs
        /\ x.n = 0 => Cardinality({y \in roots : y.n > 0}) < MaxHeld
        /\ pkg' = utIncRef(pkg, x.k, x.e)
        /\ roots' = (roots \ {x}) \cup {[x EXCEPT !.n = @ + 1]}
    /\ sat' = (sat \/ Saturated(pkg'))
    /\ ops' = ops + 1
    /\ UNCHANGED <<ct, TOLERANCE>>

\* decRef(e) for an edge the client has incRef'd
UtDecRef ==
    /\ ops < MaxOps
    /\ \E x \in roots :
        /\ x.n > 0
        /\ pkg' = utDecRef(pkg, x.k, x.e)
        /\ roots' = (roots \ {x}) \cup {[x EXCEPT !.n = @ - 1]}
    /\ ops' = ops + 1
    /\ UNCHANGED <<ct, TOLERANCE, sat>>

\* garbageCollect(force); the client keeps the edges it has protected
UtGarbageCollect ==
    /\ ops < MaxOps
    /\ \E force \in BOOLEAN : pkg' = settle(pkgGarbageCollect(pkg, force))
    /\ roots' = {x \in roots : x.n > 0}
    /\ ops' = ops + 1
    /\ UNCHANGED <<ct, TOLERANCE, sat>>

\* reset(), after which the client holds no edge
UtReset ==
    /\ ops < MaxOps
    /\ roots # {}
    /\ pkg' = settle(pkgReset(pkg))
    /\ roots' = {}
    /\ ops' = ops + 1
    /\ UNCHANGED <<ct, TOLERANCE, sat>>

UtNext == UtMakeNode \/ UtIncRef \/ UtDecRef \/ UtGarbageCollect \/ UtReset

SpecUT == UtInit /\ [][UtNext]_vars

\* ------------------------------------------------------------------------
\* Properties of the float pool
\* ------------------------------------------------------------------------

\* the linked entries other than the static zero and one
LinkedArena(t) == Linked(t) \ {zero, one}

\* C6: no two distinct linked entries (zero and one excepted) hold values
\* that differ by less than the tolerance: lookup finds an entry within
\* the tolerance also in the neighbouring upper bucket.
C6_Dedup ==
    \A a \in LinkedArena(ct), b \in LinkedArena(ct) :
        a # b => Abs(EntryAt(ct, a).value - EntryAt(ct, b).value) >= TOLERANCE

\* C7: lookup(v) returns zero for |v| < tol, one for |v - 1| < tol, and
\* otherwise an entry within tol of v; a second lookup(v) returns the same
\* entry and leaves count unchanged.
C7_LookupIdempotent ==
    \A v \in LookupVals :
        (lookupMisses(ct, v, TOLERANCE) => CanGetEntry(ct)) =>
            LET r1 == lookup(ct, v, TOLERANCE)
                r2 == lookup(r1.ct, v, TOLERANCE)
            IN /\ Abs(v) < TOLERANCE => r1.ret = zero
               /\ Abs(v - Scale) < TOLERANCE => r1.ret = one
               /\ (Abs(v) >= TOLERANCE /\ Abs(v - Scale) >= TOLERANCE) =>
                      /\ r1.ret \in LinkedArena(r1.ct)
                      /\ Abs(EntryAt(r1.ct, r1.ret).value - v) < TOLERANCE
               /\ r2.ret = r1.ret
               /\ r2.ct.count = r1.ct.count
               /\ r2.ct = r1.ct

\* C7 witness: lookups have created entries, one of them beyond the
\* constructor's two, and a further lookup would allocate as well
C7_Witness ==
    /\ \E a \in LinkedArena(ct) : EntryAt(ct, a).value \in LookupVals
    /\ \E v \in LookupVals : lookupMisses(ct, v, TOLERANCE) /\ CanGetEntry(ct)

\* C9 (float entries): once the reference count of a float entry has reached
\* the maximum it stays there under every later incRef and decRef.
C9_FloatSaturationSticky ==
    [][\A k \in 1..MaxEnt :
          ct.chunks[k].refCount = RefCountMax => ct'.chunks[k].refCount = RefCountMax]_ct

\* C10: a garbageCollect that runs unlinks exactly the entries with
\* refCount == 0 and pushes them on the free list; zero and one stay linked
\* and incRef/decRef never touch them; every entry with refCount > 0 stays
\* linked with its value and count; the number returned is the number removed.
C10_GarbageCollectExact ==
    /\ \A force \in BOOLEAN :
          ctGcRuns(ct, force) =>
            LET r == ctGarbageCollect(ct, force)
                removed == Linked(ct) \ Linked(r.ct)
            IN /\ Linked(r.ct) = {e \in Linked(ct) : EntryAt(ct, e).refCount > 0}
               /\ \A e \in Linked(r.ct) : EntryAt(r.ct, e).refCount > 0
               /\ FreeEntries(r.ct) = FreeEntries(ct) \cup removed
               /\ r.ret = Cardinality(removed)
               /\ r.ct.count = Cardinality(Linked(r.ct))
               /\ \A e \in Linked(r.ct) :
                     /\ EntryAt(r.ct, e).value = EntryAt(ct, e).value
                     /\ EntryAt(r.ct, e).refCount = EntryAt(ct, e).refCount
               /\ zero \in Linked(r.ct) /\ one \in Linked(r.ct)
    /\ \A s \in {zero, one, zero + 1, one + 1} :
          incRefEntry(ct, s) = ct /\ decRefEntry(ct, s) = ct
    /\ zero \in Linked(ct) /\ one \in Linked(ct)

\* C10 witness: a collection has run and removed entries, while referenced
\* entries and unreferenced ones are linked again
C10_Witness ==
    /\ FreeEntries(ct) # {}
    /\ \E a \in LinkedArena(ct) : EntryAt(ct, a).refCount = 0
    /\ \E a \in LinkedArena(ct) : EntryAt(ct, a).refCount > 1


\* ------------------------------------------------------------------------
\* Properties of the unique tables
\* ------------------------------------------------------------------------

\* the nodes linked in the table of level v
LevelNodes(P, k, v) == UNION {nodeChain(P, k, P.ut[k].tables[v][key]) : key \in 0..UT_MASK}

\* the non-terminal nodes reachable from node p
RECURSIVE Reach(_, _, _)
Reach(P, k, p) ==
    IF p \in {Terminal, Null} THEN {}
    ELSE {p} \cup UNION {Reach(P, k, P.ut[k].nodes[p].e[i].p) : i \in Slots(k)}

\* a candidate as makeDDNode builds it: a node from getNode with the level
\* and the edges of the stored node p
candidateOf(P, k, p) ==
    LET g == getNode(P, k)
    IN [P |-> [g.P EXCEPT !.ut[k].nodes[g.ret].v = P.ut[k].nodes[p].v,
                          !.ut[k].nodes[g.ret].e = P.ut[k].nodes[p].e],
        ret |-> g.ret]

\* the weights of the edges the client holds, and ONE
HeldWeights == {ONE} \cup {x.e.w : x \in roots}

\* C1: no two distinct nodes linked in the table of one level have equal
\* child-edge arrays; the lookup of a candidate whose edges equal those of a
\* stored node p returns {p, candidate weight} and leaves nodeCount
\* unchanged; the lookup of a stored node returns that node.
C1_Canonicity ==
    \A k \in Kinds :
        /\ \A v \in Levels : \A p, q \in LevelNodes(pkg, k, v) :
               p # q => pkg.ut[k].nodes[p].e # pkg.ut[k].nodes[q].e
        /\ \A p \in LinkedNodes(pkg, k), w \in HeldWeights :
               LET l == utLookup(pkg, k, [p |-> p, w |-> w], FALSE)
               IN /\ l.ret = [p |-> p, w |-> w]
                  /\ l.P.ut[k].nodeCount = pkg.ut[k].nodeCount
        /\ \A p \in LinkedNodes(pkg, k), w \in HeldWeights :
               CanGetNode(pkg, k) =>
                   LET c == candidateOf(pkg, k, p)
                       l == utLookup(c.P, k, [p |-> c.ret, w |-> w], FALSE)
                   IN /\ l.ret = [p |-> p, w |-> w]
                      /\ l.P.ut[k].nodeCount = pkg.ut[k].nodeCount
                      /\ c.ret \in FreeNodes(l.P, k)

\* a bucket chains two nodes of one level, a candidate can be had, and a
\* construction has already hit a stored node (more constructions than nodes)
C1_Witness ==
    \E k \in Kinds, v \in Levels, key \in 0..UT_MASK :
        /\ Cardinality(nodeChain(pkg, k, pkg.ut[k].tables[v][key])) >= 2
        /\ CanGetNode(pkg, k)
        /\ pkg.ut[k].allocations > pkg.ut[k].nodeCount

\* the outstanding incRefs of the client on edges that target node n
RootRefs(k, n) ==
    Cardinality({y \in roots \X (1..MaxRootRefs) :
                    y[1].k = k /\ y[1].e.p = n /\ y[2] <= y[1].n})

\* the child-edge slots of linked nodes with ref > 0 that target node n
ChildRefs(P, k, n) ==
    Cardinality({s \in LinkedNodes(P, k) \X Slots(k) :
                    P.ut[k].nodes[s[1]].ref > 0 /\ P.ut[k].nodes[s[1]].e[s[2]].p = n})

\* the occurrences of float entry a as a weight component of the edges the
\* client has incRef'd and of the child edges of linked nodes with ref > 0
WeightUses(P, a) ==
    Cardinality({y \in roots \X (1..MaxRootRefs) \X {"r", "i"} :
                    /\ y[2] <= y[1].n
                    /\ getAlignedPointer(IF y[3] = "r" THEN y[1].e.w.r ELSE y[1].e.w.i) = a})
    + Cardinality({s \in Kinds \X (1..MaxNode) \X (0..(NEDGE - 1)) \X {"r", "i"} :
                    /\ s[2] \in LinkedNodes(P, s[1])
                    /\ s[3] \in Slots(s[1])
                    /\ P.ut[s[1]].nodes[s[2]].ref > 0
                    /\ LET w == P.ut[s[1]].nodes[s[2]].e[s[3]].w
                       IN getAlignedPointer(IF s[4] = "r" THEN w.r ELSE w.i) = a})

\* C2: while no count has reached its maximum, the ref of every linked
\* node is the number of outstanding incRefs on root edges that target it
\* plus the number of child slots of nodes with ref > 0 that target it, and
\* the refCount of every float entry other than zero and one is at least
\* the number of its occurrences as a weight component of those edges.
C2_RefCountSound ==
    ~sat =>
        /\ \A k \in Kinds : \A n \in LinkedNodes(pkg, k) :
               pkg.ut[k].nodes[n].ref = RootRefs(k, n) + ChildRefs(pkg, k, n)
        /\ \A a \in 1..MaxEnt :
               pkg.ct.chunks[a].refCount >= WeightUses(pkg, EntryAddr(a))

\* a node is referenced by the client and as the child of a referenced node
C2_Witness ==
    /\ ~sat
    /\ \E k \in Kinds : \E n \in LinkedNodes(pkg, k) :
           RootRefs(k, n) >= 1 /\ ChildRefs(pkg, k, n) >= 1
    /\ \E a \in 1..MaxEnt : WeightUses(pkg, EntryAddr(a)) >= 2

\* the edges the client has incRef'd
LiveRoots == {x \in roots : x.n > 0}

\* C3: after garbageCollect(force = true) in a state whose only live root is
\* r, incRef'd once, the linked nodes are exactly the non-terminal nodes
\* reachable from r: every node with ref > 0 stays linked and off the free
\* list, no node with ref = 0 stays linked, and nodeCount is the number of
\* the surviving nodes.
C3_ForcedCollectExact ==
    \A r \in LiveRoots :
        (~sat /\ LiveRoots = {r} /\ r.n = 1) =>
            LET P2 == pkgGarbageCollect(pkg, TRUE)
            IN \A k \in Kinds :
                /\ LinkedNodes(P2, k) = (IF k = r.k THEN Reach(pkg, k, r.e.p) ELSE {})
                /\ \A n \in LinkedNodes(pkg, k) :
                       pkg.ut[k].nodes[n].ref > 0 =>
                           n \in LinkedNodes(P2, k) /\ n \notin FreeNodes(P2, k)
                /\ \A n \in LinkedNodes(P2, k) : P2.ut[k].nodes[n].ref > 0
                /\ P2.ut[k].nodeCount = Cardinality(LinkedNodes(P2, k))

\* one live root that reaches two nodes, and a linked node with ref = 0
\* for the collection to remove
C3_Witness ==
    \E r \in LiveRoots :
        /\ ~sat /\ LiveRoots = {r} /\ r.n = 1
        /\ Cardinality(Reach(pkg, r.k, r.e.p)) >= 2
        /\ \E n \in LinkedNodes(pkg, r.k) : pkg.ut[r.k].nodes[n].ref = 0

\* the float entries garbageCollect(force) puts on the free list of the pool
FreedBy(P, force) == FreeEntries(pkgGarbageCollect(P, force).ct) \ FreeEntries(P.ct)

\* C4: after garbageCollect(force), for either value of force, no node that
\* is still linked in a unique table has a child-edge weight component that
\* refers to a float entry the pool put on its free list in that call.
C4_NoDanglingWeight ==
    \A force \in BOOLEAN :
        LET P2 == pkgGarbageCollect(pkg, force)
        IN \A k \in Kinds : \A n \in LinkedNodes(P2, k) : \A i \in Slots(k) :
               LET w == P2.ut[k].nodes[n].e[i].w
               IN /\ getAlignedPointer(w.r) \notin FreedBy(pkg, force)
                  /\ getAlignedPointer(w.i) \notin FreedBy(pkg, force)

\* ------------------------------------------------------------------------
\* Normalization: nodes built from weights of many magnitudes, from interned
\* weights (cached = false) and from weights of the cache lane (cached = true)
\* ------------------------------------------------------------------------

\* the weights the client builds edges from: one, two and a weight at the
\* tolerance; for a vector also 1/sqrt(2) and i, for a matrix two small
\* weights whose squared magnitudes differ by less than the tolerance
NormMenu(k) ==
    {[r |-> Scale, i |-> 0], [r |-> 2 * Scale, i |-> 0], [r |-> 2, i |-> 0]}
    \cup (IF k = "m" THEN {[r |-> 32, i |-> 0], [r |-> 32, i |-> 32]}
          ELSE {[r |-> SQRT2_2, i |-> 0], [r |-> 0, i |-> Scale]})

NormInit ==
    /\ TOLERANCE = DEFAULT_TOLERANCE
    /\ ct = ctConstructed(DEFAULT_TOLERANCE)
    /\ pkg = pkgConstructed(DEFAULT_TOLERANCE)
    /\ roots = {}
    /\ sat = FALSE
    /\ ops = 0

\* e = makeDDNode(var, edges, cached), with the weight of e interned by the
\* caller when cached; the client keeps every edge it got
NormMade(mk, k) ==
    /\ ~mk.P.oob
    /\ pkg' = settle(mk.P)
    /\ roots' = roots \cup {[k |-> k, e |-> mk.ret, n |-> 0]}
NormMake(tw, k, var, ws, ts, cached) ==
    NormMade(internWeight(makeDDNode(tw.P, k, var, edgesOf(k, ws, ts, tw.ret), cached)), k)
NormChoose(k, var, ws, ts, cached) ==
    NormMake(takeWeights(pkg, k, ws, 0, cached), k, var, ws, ts, cached)
NormPick(cached) ==
    \E k \in Kinds, var \in Levels :
        \E shape \in Shapes(k), t0 \in TargetsOf(k, var), t1 \in TargetsOf(k, var),
           w0 \in NormMenu(k), w1 \in NormMenu(k) :
            /\ \A other \in Kinds \ {k} : pkg.ut[other].allocations = 0
            /\ NormChoose(k, var,
                          [i \in 1..NEdgesOf(k) |-> <<w0, w1>>[shape[i] + 1]],
                          [i \in 1..NEdgesOf(k) |-> <<t0, t1>>[shape[i] + 1]],
                          cached)
NormMakeInterned ==
    /\ ops < NormOps
    /\ NormPick(FALSE)
    /\ ops' = ops + 1
    /\ UNCHANGED <<ct, TOLERANCE, sat>>
NormMakeCached ==
    /\ ops < NormOps
    /\ NormPick(TRUE)
    /\ ops' = ops + 1
    /\ UNCHANGED <<ct, TOLERANCE, sat>>

NormNext == NormMakeInterned \/ NormMakeCached

SpecNorm == NormInit /\ [][NormNext]_vars

\* ------------------------------------------------------------------------
\* Properties of normalization
\* ------------------------------------------------------------------------

\* the child edges of the stored node n, and those of non-zero weight
ChildrenOf(k, n) == pkg.ut[k].nodes[n].e
NonZeroSlots(k, n) == {i \in Slots(k) : ChildrenOf(k, n)[i].w # ZERO}
PivotOf(k, n) == CHOOSE i \in NonZeroSlots(k, n) : \A j \in NonZeroSlots(k, n) : i <= j

\* the sum of the squared magnitudes of the child weights of vector node n
SquaredSum(n) == mag2(pkg, ChildrenOf("v", n)[0].w) + mag2(pkg, ChildrenOf("v", n)[1].w)

\* C18 as stated: every stored vector node has its first child edge of
\* non-zero weight carrying the weight ONE, and every non-zero child weight
\* has magnitude at most 1 within the tolerance
C18_PivotIsOne ==
    \A n \in LinkedNodes(pkg, "v") :
        /\ NonZeroSlots("v", n) # {}
        /\ ChildrenOf("v", n)[PivotOf("v", n)].w = ONE
        /\ \A i \in NonZeroSlots("v", n) :
               mag2(pkg, ChildrenOf("v", n)[i].w) <= Scale + TOLERANCE

\* C18: every stored vector node has a child edge of non-zero weight, the
\* squared magnitudes of its child weights sum to 1 within rounding, so that
\* each child weight has magnitude at most 1 within the tolerance, and the
\* weight of its first child edge, when not ZERO, is the positive real 1/s
C18_VectorNormalized ==
    \A n \in LinkedNodes(pkg, "v") :
        /\ NonZeroSlots("v", n) # {}
        /\ Abs(SquaredSum(n) - Scale) <= TOLERANCE
        /\ \A i \in NonZeroSlots("v", n) :
               mag2(pkg, ChildrenOf("v", n)[i].w) <= Scale + TOLERANCE
        /\ ChildrenOf("v", n)[0].w # ZERO =>
               /\ ChildrenOf("v", n)[0].w.i = zero
               /\ ChildrenOf("v", n)[0].w.r # zero
               /\ ~isNegativePointer(ChildrenOf("v", n)[0].w.r)

\* a stored vector node with two children of non-zero weight, the first not
\* ONE, built from weights of the cache lane on top of another vector node
C18_Witness ==
    \E n \in LinkedNodes(pkg, "v") :
        /\ NonZeroSlots("v", n) = {0, 1}
        /\ ChildrenOf("v", n)[0].w # ONE
        /\ ChildrenOf("v", n)[0].p # Terminal
        /\ ops = NormOps


\* the candidate node of level 0 with the weights ws on terminal edges, as
\* makeDDNode hands it to normalize: [P, ret] with ret the candidate
candidateFill(g, ws, taken) ==
    [P |-> makeDDNodeFill(g.P, "m", g.ret, 0,
                          edgesOf("m", ws, [i \in 1..NEDGE |-> Terminal], taken)),
     ret |-> g.ret]
candidateGet(tw, ws) ==
    IF tw.P.oob \/ ~CanGetNode(tw.P, "m") THEN Stop(tw.P, Null)
    ELSE candidateFill(getNode(tw.P, "m"), ws, tw.ret)
candidateM(ws, cached) == candidateGet(takeWeights(pkg, "m", ws, 0, cached), ws)

\* normalize(e, cached) for the candidate c and the parent weight ONE
normalizedM(c, cached) ==
    IF c.P.oob THEN Stop(c.P, EdgeZero)
    ELSE normalizeM(c.P, [p |-> c.ret, w |-> ONE], cached)

\* the lowest index whose squared magnitude no other exceeds by more than tol
FirstMaximal(ws) ==
    CHOOSE i \in 1..NEDGE :
        /\ ws[i] # NoWeight
        /\ \A j \in 1..NEDGE : mag2Of(ws[j]) - mag2Of(ws[i]) <= TOLERANCE
        /\ \A h \in 1..(i - 1) :
               ws[h] = NoWeight \/ \E j \in 1..NEDGE : mag2Of(ws[j]) - mag2Of(ws[h]) > TOLERANCE

\* the edge r of the normalized node pins child FirstMaximal to ONE, has no
\* other child weight of magnitude above 1, and represents the values ws
PinnedAndPreserving(r, ws) ==
    /\ r.P.ut["m"].nodes[r.ret.p].e[FirstMaximal(ws) - 1].w = ONE
    /\ \A i \in Slots("m") :
           mag2(r.P, r.P.ut["m"].nodes[r.ret.p].e[i].w) <= Scale + TOLERANCE
    /\ \A i \in Slots("m") :
           LET prod == mulValue(cnValue(r.P, r.ret.w),
                                cnValue(r.P, r.P.ut["m"].nodes[r.ret.p].e[i].w))
           IN /\ Abs(prod.r - ws[i + 1].r) <= TOLERANCE
              /\ Abs(prod.i - ws[i + 1].i) <= TOLERANCE

\* the edge arrays normalization is applied to: (w0, w1, w1, w0) and
\* (w0, w1, zero, w0) for the weights of the menu
NormInputs ==
    {[i \in 1..NEDGE |-> <<w0, w1, NoWeight>>[shape[i] + 1]] :
        w0 \in NormMenu("m"), w1 \in NormMenu("m"),
        shape \in {<<0, 1, 1, 0>>, <<0, 1, 2, 0>>}}

\* C19: matrix normalization of a candidate with a non-zero child weight
\* returns an edge whose first child of maximal magnitude has weight ONE,
\* whose other child weights have magnitude at most 1 within the tolerance,
\* and whose weight times each child weight is the original child weight, in
\* cached and in non-cached mode
C19_MatrixPinned ==
    \A cached \in BOOLEAN, ws \in NormInputs :
        LET r == normalizedM(candidateM(ws, cached), cached)
        IN (~r.P.oob /\ r.ret # EdgeZero) => PinnedAndPreserving(r, ws)

\* C20: in every node stored in a unique table a child edge of weight ZERO
\* is the zero edge, it does not point at a non-terminal node
C20_ZeroEdgeCanonical ==
    \A k \in Kinds : \A n \in LinkedNodes(pkg, k) : \A i \in Slots(k) :
        ChildrenOf(k, n)[i].w = ZERO => ChildrenOf(k, n)[i] = EdgeZero

\* ------------------------------------------------------------------------
\* Gates, states and the operations on them
\* ------------------------------------------------------------------------

\* the client may build OpsBuilds gates, states or identities and take
\* OpsMax steps in all
OpsBuilds == 2
OpsMax == 3

\* Hmat, Xmat, Ymat of GateMatrixDefinitions.h, row by row
Hmat ==
    <<[r |-> SQRT2_2, i |-> 0], [r |-> SQRT2_2, i |-> 0],
      [r |-> SQRT2_2, i |-> 0], [r |-> -SQRT2_2, i |-> 0]>>
Xmat == <<NoWeight, OneValue, OneValue, NoWeight>>
Ymat == <<NoWeight, [r |-> 0, i |-> -Scale], [r |-> 0, i |-> Scale], NoWeight>>
GateMats == {Hmat, Xmat, Ymat}

\* the lines of a gate on the qubits 0..msq: one target (2), the other
\* qubits a negative control (0), a positive control (1) or unconnected (-1)
LinesOf(msq) ==
    {line \in [0..msq -> {-1, 0, 1, 2}] : Cardinality({z \in 0..msq : line[z] = 2}) = 1}

\* the basis states the client asks for
BasisMenu == {"zero", "one", "plus", "right"}

OpsInit ==
    /\ TOLERANCE = DEFAULT_TOLERANCE
    /\ ct = ctConstructed(DEFAULT_TOLERANCE)
    /\ pkg = pkgConstructed(DEFAULT_TOLERANCE)
    /\ roots = {}
    /\ sat = FALSE
    /\ ops = 0

\* the client keeps every edge it got
OpsMade(t, k) ==
    /\ ~t.P.oob
    /\ pkg' = settle(t.P)
    /\ roots' = roots \cup {[k |-> k, e |-> t.ret, n |-> 0]}

\* the edges the client holds
Held(k) == {r.e : r \in {q \in roots : q.k = k}}
SameQubits(x, kx, y, ky) == levelOf(pkg, kx, x) = levelOf(pkg, ky, y)

\* auto g = dd->makeGateDD(mat, n, line)
OpsMakeGate ==
    /\ ops < OpsBuilds
    /\ \E mat \in GateMats, msq \in Levels : \E line \in LinesOf(msq) :
           OpsMade(makeGateDD(pkg, mat, msq, line), "m")
    /\ ops' = ops + 1
    /\ UNCHANGED <<ct, TOLERANCE, sat>>

\* auto v = dd->makeBasisState(n, state)
OpsMakeState ==
    /\ ops < OpsBuilds
    /\ \E msq \in Levels : \E state \in [1..(msq + 1) -> BasisMenu] :
           OpsMade(makeBasisState(pkg, msq, state), "v")
    /\ ops' = ops + 1
    /\ UNCHANGED <<ct, TOLERANCE, sat>>

\* auto id = dd->makeIdent(lsq, msq)
OpsMakeIdent ==
    /\ ops < OpsBuilds
    /\ \E msq \in Levels : OpsMade(makeIdent(pkg, 0, msq), "m")
    /\ ops' = ops + 1
    /\ UNCHANGED <<ct, TOLERANCE, sat>>

\* auto s = dd->add(x, y)
OpsAdd ==
    /\ ops < OpsMax
    /\ \E k \in Kinds : \E x \in Held(k), y \in Held(k) :
           /\ SameQubits(x, k, y, k)
           /\ OpsMade(add(pkg, k, x, y), k)
    /\ ops' = ops + 1
    /\ UNCHANGED <<ct, TOLERANCE, sat>>

\* auto p = dd->multiply(x, y)
OpsMultiply ==
    /\ ops < OpsMax
    /\ \E k \in Kinds : \E x \in Held("m"), y \in Held(k) :
           /\ SameQubits(x, "m", y, k)
           /\ OpsMade(multiply(pkg, k, x, y), k)
    /\ ops' = ops + 1
    /\ UNCHANGED <<ct, TOLERANCE, sat>>

\* auto t = dd->transpose(x)
OpsTranspose ==
    /\ ops < OpsMax
    /\ \E x \in Held("m") : OpsMade(transpose(pkg, x), "m")
    /\ ops' = ops + 1
    /\ UNCHANGED <<ct, TOLERANCE, sat>>

\* auto k = dd->kronecker(x, y)
OpsKronecker ==
    /\ ops < OpsMax
    /\ \E k \in Kinds : \E x \in Held(k), y \in Held(k) : OpsMade(kronecker(pkg, k, x, y), k)
    /\ ops' = ops + 1
    /\ UNCHANGED <<ct, TOLERANCE, sat>>

\* a value the client reads: the edges it holds stay as they are
OpsRead(t) ==
    /\ ~t.P.oob
    /\ pkg' = settle(t.P)
    /\ roots' = roots

\* auto t = dd->trace(x)
OpsTrace ==
    /\ ops < OpsMax
    /\ \E x \in Held("m") : OpsRead(trace(pkg, x))
    /\ ops' = ops + 1
    /\ UNCHANGED <<ct, TOLERANCE, sat>>

\* auto ip = dd->innerProduct(x, y)
OpsInnerProduct ==
    /\ ops < OpsMax
    /\ \E x \in Held("v"), y \in Held("v") :
           /\ SameQubits(x, "v", y, "v")
           /\ OpsRead(innerProduct(pkg, x, y))
    /\ ops' = ops + 1
    /\ UNCHANGED <<ct, TOLERANCE, sat>>

\* dd->garbageCollect(force): the client has protected none of its edges
\* and gives them up
OpsGarbageCollect ==
    /\ ops < OpsMax
    /\ \E force \in BOOLEAN : pkg' = settle(pkgGarbageCollect(pkg, force))
    /\ roots' = {}
    /\ ops' = ops + 1
    /\ UNCHANGED <<ct, TOLERANCE, sat>>

\* dd->toffoliTable.insert(n, controls, target, e) for a gate the client has
\* built: a control on qubit 1 and the target on qubit 0
OpsToffoliInsert ==
    /\ ops < OpsBuilds
    /\ \E e \in Held("m") :
           pkg' = ttInsert(pkg, NQ, {[qubit |-> 1, pos |-> TRUE]}, 0, e)
    /\ roots' = roots
    /\ ops' = ops + 1
    /\ UNCHANGED <<ct, TOLERANCE, sat>>

\* the client records an operation on qubit 0 in the operations table
OpsOperationInsert ==
    /\ ops < OpsBuilds
    /\ \E e \in Held("m") : pkg' = opInsert(pkg, 1, {0}, e)
    /\ roots' = roots
    /\ ops' = ops + 1
    /\ UNCHANGED <<ct, TOLERANCE, sat>>

OpsNext ==
    \/ OpsGarbageCollect
    \/ OpsToffoliInsert
    \/ OpsOperationInsert
    \/ OpsMakeGate
    \/ OpsMakeState
    \/ OpsMakeIdent
    \/ OpsAdd
    \/ OpsMultiply
    \/ OpsTranspose
    \/ OpsKronecker
    \/ OpsTrace
    \/ OpsInnerProduct

SpecOps == OpsInit /\ [][OpsNext]_vars

\* ------------------------------------------------------------------------
\* Properties of the operations
\* ------------------------------------------------------------------------

\* transpose(transpose(x)) computed in the package P
transposeTwiceOf(t) == transpose(t.P, t.ret)
transposeTwice(P, x) == transposeTwiceOf(transpose(P, x))

\* C13: transpose is an involution under edge identity: for every matrix
\* edge M the client holds, transpose(transpose(M)) is M itself, the same
\* node and the same weight, whether or not the node of M carries the symm
\* flag and whatever the transpose compute table holds
C13_TransposeInvolution ==
    \A x \in Held("m") : transposeTwice(pkg, x).P.oob \/ transposeTwice(pkg, x).ret = x

\* a matrix that is not symmetric and whose weight is not ONE was transposed:
\* its transpose is held, differs from it and is in the compute table
C13_Witness ==
    \E x \in Held("m") :
        /\ ~isTerminal(x) /\ ~pkg.ut["m"].nodes[x.p].symm /\ x.w # ONE
        /\ tabLookup(pkg, "matrixTranspose", x, x).p # Null
        /\ tabLookup(pkg, "matrixTranspose", x, x) \in Held("m") \ {x}
        /\ ~transposeTwice(pkg, x).P.oob

\* add(y, x) computed after add(x, y), in the package the first call left
addThen(t, k, x, y) == add(t.P, k, x, y)
addBothWays(P, k, x, y) == addThen(add(P, k, x, y), k, y, x)

\* C11: add is commutative and has the zero edge as neutral element under
\* edge identity: for all edges x and y of one kind on the same qubits the
\* client holds, add(x, y) and add(y, x) are the same edge (same node, same
\* weight) and add(x, zero) is x itself, whatever the add compute table holds
C11_AddCommutativeNeutral ==
    \A k \in Kinds : \A x \in Held(k) :
        /\ add(pkg, k, x, EdgeZero).P.oob \/ add(pkg, k, x, EdgeZero).ret = x
        /\ \A y \in Held(k) :
               SameQubits(x, k, y, k) =>
                   \/ addBothWays(pkg, k, x, y).P.oob
                   \/ addBothWays(pkg, k, x, y).ret = add(pkg, k, x, y).ret

\* two different non-zero edges on different nodes were added: the sum is
\* held and the compute table has it, and the weight of x is not ONE
C11_Witness ==
    \E k \in Kinds : \E x \in Held(k), y \in Held(k) :
        /\ x.p # y.p /\ ~isTerminal(x) /\ ~isTerminal(y) /\ SameQubits(x, k, y, k)
        /\ x.w \notin {ZERO, ONE}
        /\ tabLookup(pkg, AddTable(k), CachedEdgeOf(pkg, x), CachedEdgeOf(pkg, y)).p # Null
        /\ ~addBothWays(pkg, k, x, y).P.oob
        /\ add(pkg, k, x, y).ret \in Held(k) \ {EdgeZero}

\* multiply(identity, x) twice in a row, identity = makeIdent on the qubits
\* of x: [P, first, ret] with first the product of the first call (the fast
\* path) and ret the product of the second (served from the compute table)
identityTimesAgain(m, k, id, x) == [P |-> multiply(m.P, k, id, x).P, first |-> m.ret,
                                    ret |-> multiply(m.P, k, id, x).ret]
identityTimesOf(id, k, x) ==
    IF id.P.oob THEN [P |-> id.P, first |-> x, ret |-> x]
    ELSE identityTimesAgain(multiply(id.P, k, id.ret, x), k, id.ret, x)
identityTimes(P, k, x) == identityTimesOf(makeIdent(P, 0, levelOf(P, k, x)), k, x)

\* C12: multiply(identity(n), x) is x itself, the same node and the same
\* weight, for every vector edge and every matrix edge x on n qubits the
\* client holds, on the identity fast path and when the product is served
\* from the multiplication compute table
C12_IdentityIsNeutral ==
    \A k \in Kinds : \A x \in Held(k) :
        \/ identityTimes(pkg, k, x).P.oob
        \/ identityTimes(pkg, k, x).first = x /\ identityTimes(pkg, k, x).ret = x

\* the client multiplied an identity it holds with an edge on the same
\* qubits that is no identity and whose weight is not ONE: the compute
\* table has the product
C12_Witness ==
    \E k \in Kinds : \E id \in Held("m"), x \in Held(k) :
        /\ ~isTerminal(id) /\ pkg.ut["m"].nodes[id.p].ident /\ id.w = ONE
        /\ ~isTerminal(x) /\ SameQubits(id, "m", x, k) /\ x.w \notin {ZERO, ONE}
        /\ k = "m" => ~pkg.ut["m"].nodes[x.p].ident
        /\ tabLookup(pkg, MulTable(k), stripped(id), stripped(x)).p = x.p
        /\ ~identityTimes(pkg, k, x).P.oob

\* the lines of the 2-qubit CNOT: control on the top qubit 1 and target on
\* the bottom qubit 0, and the other way round
CnotTopLine == [z \in 0..1 |-> IF z = 1 THEN 1 ELSE 2]
CnotBottomLine == [z \in 0..1 |-> IF z = 0 THEN 1 ELSE 2]

\* M = makeGateDD(Xmat, 1, control top), transpose(M), and then the CNOT with
\* control bottom built independently: [P, top, tr, bottom]
cnotBuilt(b, top, tr) == [P |-> b.P, top |-> top, tr |-> tr, bottom |-> b.ret]
cnotTransposed(t, top) ==
    IF t.P.oob THEN [P |-> t.P, top |-> top, tr |-> t.ret, bottom |-> NullEdge]
    ELSE cnotBuilt(makeGateDD(t.P, Xmat, 1, CnotBottomLine), top, t.ret)
cnotMade(g) ==
    IF g.P.oob THEN [P |-> g.P, top |-> g.ret, tr |-> NullEdge, bottom |-> NullEdge]
    ELSE cnotTransposed(transpose(g.P, g.ret), g.ret)
cnotPair(P) == cnotMade(makeGateDD(P, Xmat, 1, CnotTopLine))

\* C14 as stated: the transpose of the CNOT with control top and target
\* bottom is edge-identical to the CNOT with control bottom and target top
C14_TransposeIsOtherCnot ==
    cnotPair(pkg).P.oob \/ cnotPair(pkg).tr = cnotPair(pkg).bottom

\* C14, amended: the CNOT with control top and target bottom is a symmetric
\* matrix and its node carries the symm flag, so transpose(M) is M itself,
\* the same edge; the CNOT with control bottom and target top is another
\* edge and another matrix, which maps |01> to |11> where M maps |10> to |11>
C14_TransposeIsSameCnot ==
    \/ cnotPair(pkg).P.oob
    \/ /\ cnotPair(pkg).tr = cnotPair(pkg).top
       /\ cnotPair(pkg).P.ut["m"].nodes[cnotPair(pkg).top.p].symm
       /\ cnotPair(pkg).tr # cnotPair(pkg).bottom
       /\ getMatrix(cnotPair(pkg).P, cnotPair(pkg).top)[3][2] = OneValue
       /\ getMatrix(cnotPair(pkg).P, cnotPair(pkg).bottom)[3][1] = OneValue
       /\ getMatrix(cnotPair(pkg).P, cnotPair(pkg).bottom)[3][2] = ZeroValue

\* the client holds the CNOT with control top and target bottom and has
\* taken the transpose of a symmetric matrix, which gave it no new edge
C14_Witness ==
    /\ ~cnotPair(pkg).P.oob
    /\ cnotPair(pkg).top \in Held("m")
    /\ pkg.ut["m"].nodes[cnotPair(pkg).top.p].symm
    /\ ops > Cardinality(roots)

\* the rounding allowed between two values: every lookup moves a weight by
\* less than the tolerance
Slack == 2 * TOLERANCE
closeTo(a, b) == Abs(a.r - b.r) <= Slack /\ Abs(a.i - b.i) <= Slack

\* the sum over k < n of mat[i][k] * vec[k]
RECURSIVE rowTimes(_, _, _, _)
rowTimes(mat, vec, i, n) ==
    IF n = 0 THEN ZeroValue
    ELSE addValue(rowTimes(mat, vec, i, n - 1), mulValue(mat[i][n - 1], vec[n - 1]))

\* getVector(multiply(M, v)) is getMatrix(M) times getVector(v), read in the
\* package p.P the multiplication left
timesIs(res, mat, vec) ==
    \A i \in DOMAIN vec : closeTo(res[i], rowTimes(mat, vec, i, Cardinality(DOMAIN vec)))
isProductOf(p, M, v) ==
    p.P.oob \/ timesIs(getVector(p.P, p.ret), getMatrix(p.P, M), getVector(p.P, v))

\* H on qubit 1, then X on qubit 0 controlled by qubit 1, applied to |00>:
\* [P, ret] with ret the state
bellSecond(s, cx) == IF s.P.oob THEN s ELSE multiply(s.P, "v", cx, s.ret)
bellCnot(cx, h, st) ==
    IF cx.P.oob THEN cx ELSE bellSecond(multiply(cx.P, "v", h, st), cx.ret)
bellGate(h, st) ==
    IF h.P.oob THEN h ELSE bellCnot(makeGateDD(h.P, Xmat, 1, CnotTopLine), h.ret, st)
bellState(st) ==
    IF st.P.oob THEN st
    ELSE bellGate(makeGateDD(st.P, Hmat, 1, [z \in 0..1 |-> IF z = 1 THEN 2 ELSE -1]),
                  st.ret)
bell(P) == bellState(makeZeroState(P, 1))
bellVectorIs(vec) ==
    \A i \in 0..3 : closeTo(vec[i], [r |-> IF i \in {0, 3} THEN SQRT2_2 ELSE 0, i |-> 0])
bellIs(b) == b.P.oob \/ bellVectorIs(getVector(b.P, b.ret))

\* C17: multiply(M, v) stands for the matrix-vector product: for every
\* matrix M and every state v on the same qubits the client holds (gates,
\* basis states and what earlier operations made of them), each entry of
\* getVector(multiply(M, v)) is the sum over k of getMatrix(M)[i][k] *
\* getVector(v)[k] up to rounding; and H on qubit 1 followed by X on qubit 0
\* controlled by qubit 1, applied to |00>, gives [1/sqrt2, 0, 0, 1/sqrt2]
C17_MultiplyIsProduct ==
    /\ \A M \in Held("m"), v \in Held("v") :
           SameQubits(M, "m", v, "v") =>
               isProductOf(multiply(pkg, "v", M, v), M, v)
    /\ bellIs(bell(pkg))

\* the client multiplied a gate that is no identity with a state on two
\* qubits that has more than one non-zero amplitude and holds the product;
\* the compute table has it
C17_Witness ==
    \E M \in Held("m"), v \in Held("v") :
        /\ levelOf(pkg, "m", M) = 1 /\ levelOf(pkg, "v", v) = 1
        /\ ~pkg.ut["m"].nodes[M.p].ident /\ ~pkg.ut["m"].nodes[M.p].symm
        /\ Cardinality({i \in 0..3 : getVector(pkg, v)[i] # ZeroValue}) > 1
        /\ tabLookup(pkg, MulTable("v"), stripped(M), stripped(v)).p # Null
        /\ ~multiply(pkg, "v", M, v).P.oob
        /\ multiply(pkg, "v", M, v).ret \in Held("v") \ {v, EdgeZero}
        /\ ~bell(pkg).P.oob

\* trace(kronecker(A, B)) against trace(A) * trace(B): the traces are read
\* one after the other in the package the Kronecker product left
traceProductIs(tk, ta, tb) == closeTo(tk, mulValue(ta, tb))
traceOfB(tk, ta, tb) == tb.P.oob \/ traceProductIs(tk.ret, ta.ret, tb.ret)
traceOfA(tk, ta, B) == ta.P.oob \/ traceOfB(tk, ta, trace(ta.P, B))
traceOfBoth(tk, A, B) == tk.P.oob \/ traceOfA(tk, trace(tk.P, A), B)
traceOfKronecker(kr, A, B) == kr.P.oob \/ traceOfBoth(trace(kr.P, kr.ret), A, B)

\* C15: trace(kronecker(A, B)) = trace(A) * trace(B) for all matrices A
\* and B the client holds, whatever their weights, also when the node of A
\* is an identity and the weight of A is not ONE
C15_TraceOfKronecker ==
    \A A \in Held("m"), B \in Held("m") :
        traceOfKronecker(kronecker(pkg, "m", A, B), A, B)

\* the squared length of the vector an edge stands for
RECURSIVE lengthSquared(_, _)
lengthSquared(vec, n) ==
    IF n = 0 THEN 0
    ELSE lengthSquared(vec, n - 1)
         + fxMul(vec[n - 1].r, vec[n - 1].r) + fxMul(vec[n - 1].i, vec[n - 1].i)
normalizedVector(vec) == Abs(lengthSquared(vec, Cardinality(DOMAIN vec)) - Scale) <= Slack
normalized(x) == normalizedVector(getVector(pkg, x))

\* innerProduct(x, x) is real, in [0, 1], 1 and the fidelity
selfProductIs(ip, fid) ==
    /\ Abs(ip.i) <= Slack
    /\ ip.r >= -Slack /\ ip.r <= Scale + Slack
    /\ Abs(ip.r - fid) <= Slack
    /\ closeTo(ip, OneValue)
selfProduct(ip) == ip.P.oob \/ selfProductIs(ip.ret, fidelityOf(ip).ret)

\* C16: for every state x of length 1 the client holds, whatever the
\* phase of the weight of its root edge, innerProduct(x, x) is real, lies in
\* [0, 1], equals fidelity(x, x) and is 1 up to the tolerance
C16_SelfInnerProduct ==
    \A x \in Held("v") : normalized(x) => selfProduct(innerProduct(pkg, x, x))

\* no table of the package holds an entry
tablesEmpty(P) ==
    /\ \A name \in TabNames : \A slot \in 0..(CTSLOTS - 1) : P.tab[name][slot].r.p = Null
    /\ \A key \in 0..(TT_NBUCKET - 1) : P.toffoli.table[key].e.p = Null
    /\ P.toffoli.count = 0
    /\ \A q \in Levels : P.idTable[q].p = Null
    /\ \A slot \in 0..(CTSLOTS - 1) : P.operations[slot].r.p = Null

\* no lookup in Q finds what a table of P holds
noneFound(P, Q) ==
    /\ \A name \in TabNames : \A slot \in 0..(CTSLOTS - 1) :
           tabLookup(Q, name, P.tab[name][slot].a, P.tab[name][slot].b) = NullEdge
    /\ \A key \in 0..(TT_NBUCKET - 1) :
           ttLookup(Q, P.toffoli.table[key].n, P.toffoli.table[key].controls,
                    P.toffoli.table[key].target) = NullEdge
    /\ \A slot \in 0..(CTSLOTS - 1) :
           opLookup(Q, P.operations[slot].kind, P.operations[slot].qubits) = NullEdge
collectedFrom(P, Q) == tablesEmpty(Q) /\ noneFound(P, Q)

\* C5: whatever the package holds, garbageCollect(force), forced or not,
\* collecting or not, leaves every compute table, the Toffoli table, the
\* identity table and the operations table empty, and no lookup after it
\* finds an entry inserted before it
C5_CollectClearsTables ==
    \A force \in BOOLEAN : collectedFrom(pkg, pkgGarbageCollect(pkg, force))

\* a compute table, the identity table and the Toffoli or the operations
\* table hold an entry, and a collection that is not forced frees no node
C5_Witness ==
    /\ \E name \in TabNames : \E slot \in 0..(CTSLOTS - 1) : pkg.tab[name][slot].r.p # Null
    /\ \E q \in Levels : pkg.idTable[q].p # Null
    /\ \/ pkg.toffoli.count > 0
       \/ \E slot \in 0..(CTSLOTS - 1) : pkg.operations[slot].r.p # Null
    /\ pkg.ut["m"].nodeCount > 0
    /\ pkgGarbageCollect(pkg, FALSE).ut["m"].nodeCount = pkg.ut["m"].nodeCount

\* an operation applied to the package P came back with the cache as it
\* found it and without a failed assertion
balancedAfter(P, t) == t.P.oob \/ (t.P.err = {} /\ t.P.cacheCount = P.cacheCount)

\* C8: add, multiply, kronecker, innerProduct and trace, applied by the
\* client to the edges it holds, and partialTrace applied to them for every
\* set of their qubits, return with cacheCount as on entry; no getCached finds
\* the cache empty, no releaseCached exceeds CACHE_SIZE or is given ZERO,
\* ONE, an interned weight or a weight already released
C8_CacheLaneBalance ==
    /\ pkg.err = {}
    /\ pkg.cacheCount = CACHE_SIZE
    /\ \A M \in Held("m") : \A eliminate \in SUBSET (0..levelOf(pkg, "m", M)) :
           balancedAfter(pkg, partialTrace(pkg, M, eliminate))

\* the client has added, multiplied or combined with kronecker edges whose
\* weights are neither ZERO nor ONE, and taken a trace or an inner product
C8_Witness ==
    /\ ops = OpsMax
    /\ \E name \in {"matrixAdd", "vectorAdd", "matrixVectorMultiplication",
                     "matrixMultiplication", "matrixKronecker"} :
           \E slot \in 0..(CTSLOTS - 1) :
               /\ pkg.tab[name][slot].r.p # Null
               /\ pkg.tab[name][slot].r.w \notin {ZeroValue, OneValue}
    /\ \E e \in Held("m") \cup Held("v") : e.w \notin {ZERO, ONE}

\* the matrix mt is the transpose of the matrix m
isTransposeOf(mt, m) ==
    \A i \in DOMAIN m : \A j \in DOMAIN m : closeTo(mt[i][j], m[j][i])
transposedOf(t, x) ==
    /\ isTransposeOf(getMatrix(t.P, t.ret), getMatrix(t.P, x))
    /\ (isTerminal(x) \/ t.P.ut["m"].nodes[x.p].symm) => t.ret.w = x.w

\* C24 as stated: for every matrix edge a the client holds, the weight of
\* transpose(a) is the weight of a
C24_TransposeKeepsWeight ==
    \A x \in Held("m") : transpose(pkg, x).P.oob \/ transpose(pkg, x).ret.w = x.w

\* C24 as the code has it: transpose(a) stands for the transposed matrix;
\* its weight is a.w times the weight normalize takes out of the rebuilt
\* node, and it is a.w itself when a is terminal or its node carries symm
C24_TransposeIsTransposed ==
    \A x \in Held("m") : transpose(pkg, x).P.oob \/ transposedOf(transpose(pkg, x), x)

\* the client transposed a matrix that is not symmetric and holds the
\* result, whose weight is not the weight of the matrix
C24_Witness ==
    \E x \in Held("m") :
        /\ ~isTerminal(x) /\ ~pkg.ut["m"].nodes[x.p].symm
        /\ tabLookup(pkg, "matrixTranspose", x, x).p # Null
        /\ tabLookup(pkg, "matrixTranspose", x, x) \in Held("m")
        /\ tabLookup(pkg, "matrixTranspose", x, x).w # x.w

\* the matrix m is the identity
isIdentityMatrix(m) ==
    \A i \in DOMAIN m : \A j \in DOMAIN m :
        m[i][j] = (IF i = j THEN OneValue ELSE ZeroValue)
identityEntry(P, q) ==
    P.idTable[q].p = Null
    \/ (levelOf(P, "m", P.idTable[q]) = q /\ isIdentityMatrix(getMatrix(P, P.idTable[q])))

\* makeIdent(l, m) with the IdTable as it is and with an empty IdTable
sameIdent(t, u) == t.P.oob \/ u.P.oob \/ t.ret = u.ret
identCached(P, l, m) == sameIdent(makeIdent(P, l, m), makeIdent(clearIdentityTable(P), l, m))

\* C30: for all 0 <= l <= m, makeIdent(l, m) returns the same edge whether
\* IdTable is empty or holds the identities of earlier calls, and every
\* entry of IdTable that is not null is the identity on the qubits 0..m
C30_IdentCacheTransparent ==
    /\ \A m \in Levels : \A l \in 0..m : identCached(pkg, l, m)
    /\ \A m \in Levels : identityEntry(pkg, m)

\* the client builds gates, states and identities, adds and multiplies:
\* the operations that read and write the compute tables of add and multiply
MemoNext ==
    \/ OpsMakeGate
    \/ OpsMakeState
    \/ OpsMakeIdent
    \/ OpsAdd
    \/ OpsMultiply

SpecMemo == OpsInit /\ [][MemoNext]_vars

\* the package with its compute tables empty, the nodes and numbers kept
emptied(P) == [P EXCEPT !.tab = [name \in TabNames |-> EmptyTable]]
sameEdge(t, u) == t.P.oob \/ u.P.oob \/ t.ret = u.ret
addMemo(P, k, x, y) == sameEdge(add(P, k, x, y), add(emptied(P), k, x, y))
multiplyMemo(P, k, x, y) == sameEdge(multiply(P, k, x, y), multiply(emptied(P), k, x, y))

\* C29: for all edges x and y on the same qubits the client holds, add(x, y)
\* and multiply(x, y) return the same edge, node and weight, with the
\* compute tables as the earlier operations left them and with empty
\* compute tables
C29_MemoTransparent ==
    /\ \A k \in Kinds : \A x \in Held(k), y \in Held(k) :
           SameQubits(x, k, y, k) => addMemo(pkg, k, x, y)
    /\ \A k \in Kinds : \A x \in Held("m"), y \in Held(k) :
           SameQubits(x, "m", y, k) => multiplyMemo(pkg, k, x, y)
\* the multiplication table holds the product of the nodes of a matrix and
\* a state the client holds, of which one has a weight that is not ONE, so
\* that multiply(M, v) is served from the table and rescaled
C29_Witness ==
    \E M \in Held("m"), v \in Held("v") :
        /\ SameQubits(M, "m", v, "v")
        /\ M.w # ONE \/ v.w # ONE
        /\ tabLookup(pkg, MulTable("v"), stripped(M), stripped(v)).p # Null
        /\ ~multiply(pkg, "v", M, v).P.oob
        /\ multiply(pkg, "v", M, v).ret.w \notin {ZERO, ONE}

\* ------------------------------------------------------------------------
\* Gates built, multiplied and collected: the nodes are recycled
\* ------------------------------------------------------------------------

\* the steps the client takes
FlagsOps == 3

\* auto g = dd->makeGateDD(mat, n, line)
FlagsMakeGate ==
    /\ ops < FlagsOps
    /\ \E mat \in GateMats, msq \in Levels : \E line \in LinesOf(msq) :
           OpsMade(makeGateDD(pkg, mat, msq, line), "m")
    /\ ops' = ops + 1
    /\ UNCHANGED <<ct, TOLERANCE, sat>>

\* auto p = dd->multiply(x, y) for two gates
FlagsMultiply ==
    /\ ops < FlagsOps
    /\ \E x \in Held("m"), y \in Held("m") :
           /\ SameQubits(x, "m", y, "m")
           /\ OpsMade(multiply(pkg, "m", x, y), "m")
    /\ ops' = ops + 1
    /\ UNCHANGED <<ct, TOLERANCE, sat>>

\* dd->garbageCollect(true): the client has protected none of its edges,
\* every node goes to the free list
FlagsGarbageCollect ==
    /\ ops < FlagsOps
    /\ roots # {}
    /\ pkg' = settle(pkgGarbageCollect(pkg, TRUE))
    /\ roots' = {}
    /\ ops' = ops + 1
    /\ UNCHANGED <<ct, TOLERANCE, sat>>

FlagsNext ==
    \/ FlagsMakeGate
    \/ FlagsMultiply
    \/ FlagsGarbageCollect

SpecFlags == OpsInit /\ [][FlagsNext]_vars

\* the matrix m equals its transpose
isSymmetricMatrix(m) ==
    \A i \in DOMAIN m : \A j \in DOMAIN m : closeTo(m[i][j], m[j][i])
flagsSound(P, n) ==
    /\ P.ut["m"].nodes[n].ident => isIdentityMatrix(getMatrix(P, [p |-> n, w |-> ONE]))
    /\ P.ut["m"].nodes[n].symm => isSymmetricMatrix(getMatrix(P, [p |-> n, w |-> ONE]))

ZeroOps == 3

\* the weights of the edges: one, a number below the tolerance, none
ZeroMenu == {[r |-> Scale, i |-> 0], [r |-> 1, i |-> 0], NoWeight}

ZeroPick(cached) ==
    \E k \in Kinds, var \in Levels :
        \E shape \in Shapes(k), t0 \in TargetsOf(k, var), t1 \in TargetsOf(k, var),
           w0 \in ZeroMenu, w1 \in ZeroMenu :
            /\ \A other \in Kinds \ {k} : pkg.ut[other].allocations = 0
            /\ NormChoose(k, var,
                          [i \in 1..NEdgesOf(k) |-> <<w0, w1>>[shape[i] + 1]],
                          [i \in 1..NEdgesOf(k) |-> <<t0, t1>>[shape[i] + 1]],
                          cached)

\* e = makeDDNode(var, edges, false)
ZeroMakeInterned ==
    /\ ops < ZeroOps
    /\ ZeroPick(FALSE)
    /\ ops' = ops + 1
    /\ UNCHANGED <<ct, TOLERANCE, sat>>

\* e = makeDDNode(var, edges, true), the weight of e interned by the caller
ZeroMakeCached ==
    /\ ops < ZeroOps
    /\ ZeroPick(TRUE)
    /\ ops' = ops + 1
    /\ UNCHANGED <<ct, TOLERANCE, sat>>

ZeroNext == ZeroMakeInterned \/ ZeroMakeCached

SpecZero == NormInit /\ [][ZeroNext]_vars

\* C26: after any sequence of node constructions, cached or not, every
\* node that getNode handed out is linked in the unique table or is on the
\* free list: normalize gives the candidate of an all-zero node back
C26_NoNodeLost ==
    \A k \in Kinds : \A n \in 1..pkg.ut[k].allocations :
        n \in LinkedNodes(pkg, k) \cup FreeNodes(pkg, k)

\* ------------------------------------------------------------------------
\* Basis states built from sequences of any length
\* ------------------------------------------------------------------------

BasisOps == 3

\* the sequences that are too short for the most significant qubit msq
ShortStates(msq) == UNION {[1..n -> BasisMenu] : n \in 0..msq}

\* auto s = dd->makeBasisState(n, states)
BasisMakeState ==
    /\ ops < BasisOps
    /\ \E msq \in Levels : \E state \in [1..(msq + 1) -> BasisMenu] :
           OpsMade(makeBasisState(pkg, msq, state), "v")
    /\ ops' = ops + 1
    /\ UNCHANGED <<ct, TOLERANCE, sat>>

\* try { dd->makeBasisState(n, states); } catch (std::invalid_argument&) {}
\* with too short a sequence
BasisMakeShort ==
    /\ ops < BasisOps
    /\ \E msq \in Levels : \E state \in ShortStates(msq) :
           pkg' = settle(makeBasisState(pkg, msq, state).P)
    /\ ops' = ops + 1
    /\ UNCHANGED <<ct, TOLERANCE, roots, sat>>

\* dd->garbageCollect(true): the client has protected none of its edges
BasisGarbageCollect ==
    /\ ops < BasisOps
    /\ roots # {}
    /\ pkg' = settle(pkgGarbageCollect(pkg, TRUE))
    /\ roots' = {}
    /\ ops' = ops + 1
    /\ UNCHANGED <<ct, TOLERANCE, sat>>

BasisNext ==
    \/ BasisMakeState
    \/ BasisMakeShort
    \/ BasisGarbageCollect

SpecBasis == OpsInit /\ [][BasisNext]_vars

\* C22: makeBasisState(n, states) with fewer than n + 1 states raises
\* invalid_argument and leaves the unique tables, the float pool, the free
\* lists and cacheCount as they were before the call
C22_ShortStatesRejected ==
    \A msq \in Levels : \A state \in ShortStates(msq) :
        LET t == makeBasisState(pkg, msq, state)
        IN /\ "makeBasisState: insufficient qubit states" \in t.P.err
           /\ [t.P EXCEPT !.err = pkg.err] = pkg

\* a failed call has happened on a package that holds vector nodes, some of
\* them on the free list
C22_Witness ==
    /\ "makeBasisState: insufficient qubit states" \in pkg.err
    /\ LinkedNodes(pkg, "v") # {}
    /\ FreeNodes(pkg, "v") # {}


\* ------------------------------------------------------------------------
\* Vector nodes kept alive across garbage collections
\* ------------------------------------------------------------------------

GcOps == 5

\* e = makeDDNode(var, {{t0, lookup(1)}, {t1, lookup(w1)}}) on vector nodes
GcMakeNode ==
    /\ ops < GcOps
    /\ \E var \in Levels :
        \E t0 \in TargetsOf("v", var), t1 \in TargetsOf("v", var),
           w1 \in WeightMenu \cup {NoWeight} :
            UtMake(lookupWeights(pkg, "v", <<[r |-> Scale, i |-> 0], w1>>, 0),
                   "v", var, <<[r |-> Scale, i |-> 0], w1>>, <<t0, t1>>)
    /\ ops' = ops + 1
    /\ UNCHANGED <<ct, TOLERANCE, sat>>

\* incRef(e) for an edge the client holds
GcIncRef ==
    /\ ops < GcOps
    /\ \E x \in roots :
        /\ x.n < 1
        /\ Cardinality({y \in roots : y.n > 0}) < MaxHeld
        /\ pkg' = utIncRef(pkg, x.k, x.e)
        /\ roots' = (roots \ {x}) \cup {[x EXCEPT !.n = @ + 1]}
    /\ ops' = ops + 1
    /\ UNCHANGED <<ct, TOLERANCE, sat>>

\* garbageCollect(force); the client keeps the edges it has protected
GcGarbageCollect ==
    /\ ops < GcOps
    /\ \E force \in BOOLEAN : pkg' = settle(pkgGarbageCollect(pkg, force))
    /\ roots' = {x \in roots : x.n > 0}
    /\ ops' = ops + 1
    /\ UNCHANGED <<ct, TOLERANCE, sat>>

GcNext == GcMakeNode \/ GcIncRef \/ GcGarbageCollect

SpecGc == UtInit /\ [][GcNext]_vars

\* C25: immediately after a run of UniqueTable::garbageCollect the number
\* of nodes is below the limit, which the run has adjusted, and the next
\* unforced garbageCollect does not walk the tables
C25_LimitAboveSurvivors ==
    \A k \in Kinds : \A force \in BOOLEAN :
        utGcRuns(pkg, k, force) =>
            LET t == utGarbageCollect(pkg, k, force).P
            IN /\ t.ut[k].nodeCount < t.ut[k].gcLimit
               /\ ~utGcRuns(t, k, FALSE)


\* ------------------------------------------------------------------------
\* Two float pools in one program
\* ------------------------------------------------------------------------

TwoOps == 4
\* the values the clients look up and the tolerances they set, in units
TwoVals == {341, 342, 1023}
TolMenu == {1, 4}
\* the two instances: the pool ct and the pool of the package
Instances == {"ct", "cn"}
PoolOf(inst) == IF inst = "ct" THEN ct ELSE pkg.ct
OtherThan(inst) == IF inst = "ct" THEN "cn" ELSE "ct"

\* the members of instance inst become t; the other instance is not touched
PoolBecomes(inst, t) ==
    /\ ct' = IF inst = "ct" THEN t ELSE ct
    /\ pkg' = IF inst = "cn" THEN [pkg EXCEPT !.ct = t] ELSE pkg

\* inst.lookup(v)
TwoLookup(inst) ==
    /\ ops < TwoOps
    /\ \E v \in TwoVals :
           /\ lookupMisses(PoolOf(inst), v, TOLERANCE) => CanGetEntry(PoolOf(inst))
           /\ PoolBecomes(inst, lookup(PoolOf(inst), v, TOLERANCE).ct)
    /\ ops' = ops + 1
    /\ UNCHANGED <<TOLERANCE, roots, sat>>

\* incRef(e) for an entry of inst
TwoIncRef(inst) ==
    /\ ops < TwoOps
    /\ \E e \in Linked(PoolOf(inst)) : PoolBecomes(inst, incRefEntry(PoolOf(inst), e))
    /\ ops' = ops + 1
    /\ UNCHANGED <<TOLERANCE, roots, sat>>

\* decRef(e) for an entry of inst the client has incRef'd
TwoDecRef(inst) ==
    /\ ops < TwoOps
    /\ \E e \in Linked(PoolOf(inst)) :
           /\ EntryAt(PoolOf(inst), e).refCount > Pinned(e)
           /\ PoolBecomes(inst, decRefEntry(PoolOf(inst), e))
    /\ ops' = ops + 1
    /\ UNCHANGED <<TOLERANCE, roots, sat>>

\* inst.garbageCollect(force)
TwoGarbageCollect(inst) ==
    /\ ops < TwoOps
    /\ \E force \in BOOLEAN :
           PoolBecomes(inst, ctGarbageCollect(PoolOf(inst), force).ct)
    /\ ops' = ops + 1
    /\ UNCHANGED <<TOLERANCE, roots, sat>>

\* inst.clear()
TwoClear(inst) ==
    /\ ops < TwoOps
    /\ PoolBecomes(inst, ctClear(PoolOf(inst)))
    /\ ops' = ops + 1
    /\ UNCHANGED <<TOLERANCE, roots, sat>>

\* static void setTolerance(fp tol): TOLERANCE is a static member, the one
\* both instances (and the package, in its field tol) read
TwoSetTolerance ==
    /\ ops < TwoOps
    /\ \E tol \in TolMenu :
           /\ TOLERANCE' = tol
           /\ pkg' = [pkg EXCEPT !.tol = tol]
    /\ ops' = ops + 1
    /\ UNCHANGED <<ct, roots, sat>>

\* the operations on the members of inst
TwoOnMembers(inst) ==
    \/ TwoLookup(inst)
    \/ TwoIncRef(inst)
    \/ TwoDecRef(inst)
    \/ TwoGarbageCollect(inst)
    \/ TwoClear(inst)

TwoNext ==
    \/ \E inst \in Instances : TwoOnMembers(inst)
    \/ TwoSetTolerance

SpecTwo == CtInit /\ [][TwoNext]_vars

\* the step leaves every later operation on inst with the result it had:
\* the members are the same and every lookup returns the same
SameResults(inst) ==
    /\ PoolOf(inst)' = PoolOf(inst)
    /\ \A v \in TwoVals :
           lookup(PoolOf(inst)', v, TOLERANCE') = lookup(PoolOf(inst), v, TOLERANCE)

\* lookup(v) on inst returns zero, one or an entry within the tolerance in
\* effect of v
LookupWithinTolerance(inst) ==
    \A v \in TwoVals :
        (lookupMisses(PoolOf(inst), v, TOLERANCE) => CanGetEntry(PoolOf(inst))) =>
            LET r == lookup(PoolOf(inst), v, TOLERANCE)
            IN Abs(EntryAt(r.ct, r.ret).value - v) < TOLERANCE

\* C23 as stated: no operation on one instance, setTolerance included,
\* changes the result of a later operation on the other instance
C23_InstancesIndependent ==
    [][\A inst \in Instances :
          (TwoOnMembers(inst) \/ TwoSetTolerance) => SameResults(OtherThan(inst))]_vars

\* C23, amended: lookup, incRef, decRef, garbageCollect and clear on one
\* instance change no later result on the other instance; setTolerance
\* sets the one tolerance both instances look up with
C23_IndependentButTolerance ==
    [][/\ \A inst \in Instances : TwoOnMembers(inst) => SameResults(OtherThan(inst))
       /\ \A inst \in Instances : LookupWithinTolerance(inst)']_vars

\* both instances hold entries of their clients, differently many, and the
\* tolerance has been set
C23_Witness ==
    /\ TOLERANCE # DEFAULT_TOLERANCE
    /\ ct.count > 2
    /\ pkg.ct.count > ct.count


\* ------------------------------------------------------------------------
\* Package: reduction of garbage qubits of a vector
\* ------------------------------------------------------------------------

\* what the read of f.p->e[2] gives on a vector node, whose array e has the
\* two elements e[0] and e[1]: the bytes behind the array are a weight that
\* compares equal to CN::ZERO, an edge the program goes on with, or the read
\* faults
BeyondReads == {"zero", "edge", "fault"}

\* reduceGarbageRecursion: "f.w = cn.lookup(c); cn.releaseCached(c)", the
\* quick-fix for the normalization bug and incRef(f); l the result of the
\* lookup
reduceGarbageEnd(l, c, f) ==
    IF l.P.oob THEN Stop(l.P, EdgeZero)
    ELSE LET w == IF mag2(l.P, l.ret) > Scale THEN ONE ELSE l.ret
         IN [P |-> utIncRef(releaseCached(l.P, c), "v", [p |-> f.p, w |-> w]),
             ret |-> [p |-> f.p, w |-> w]]

\* reduceGarbageRecursion: c the result of cn.mulCached(f.w, e.w)
reduceGarbageLookup(c, f) ==
    IF c.P.oob THEN Stop(c.P, EdgeZero)
    ELSE reduceGarbageEnd(cnLookup(c.P, cnValue(c.P, c.ret)), c.ret, f)

\* reduceGarbageRecursion: "auto c = cn.mulCached(f.w, e.w)"; t = [P, ret]
\* holds f
reduceGarbageWeight(t, e) ==
    IF t.P.oob THEN Stop(t.P, EdgeZero)
    ELSE reduceGarbageLookup(mulCached(t.P, t.ret.w, e.w), t.ret)

\* reduceGarbageRecursion: "f = makeVectorNode(e.p->v, {g, vZero})", a = [P, ret]
\* holds g
reduceGarbageFold(a, v) ==
    IF a.P.oob THEN Stop(a.P, EdgeZero)
    ELSE makeDDNode(a.P, "v", v, [i \in Slots("v") |-> IF i = 0 THEN a.ret ELSE EdgeZero], FALSE)

\* reduceGarbageRecursion: "something to reduce for this qubit", with what
\* the read of f.p->e[2] gives; t = [P, ret] holds f
reduceGarbageMarked(t, v, beyond) ==
    IF beyond = "fault"
    THEN [P |-> Flag(t.P, "reduceGarbage: read of e[2] of a vector node"), ret |-> t.ret]
    ELSE IF beyond = "zero" THEN t
    ELSE reduceGarbageFold(IF t.P.ut["v"].nodes[t.ret.p].e[0].w = ZERO
                           THEN [P |-> t.P, ret |-> EdgeOne]
                           ELSE add(t.P, "v", t.P.ut["v"].nodes[t.ret.p].e[0], EdgeOne),
                           v)

\* reduceGarbageRecursion: the node made of the reduced successors, reduced
\* itself when its qubit is garbage
reduceGarbageNode(t, e, garbage, beyond) ==
    IF t.P.oob THEN Stop(t.P, EdgeZero)
    ELSE reduceGarbageWeight(
             IF ~isTerminal(t.ret) /\ levelOf(t.P, "v", t.ret) \in garbage
             THEN reduceGarbageMarked(t, levelOf(t.P, "v", e), beyond[levelOf(t.P, "v", t.ret)])
             ELSE t,
             e)

\* vEdge reduceGarbageRecursion(vEdge& e, const std::bitset<MAXN>& garbage,
\* Qubit lowerbound): [P, ret]
RECURSIVE reduceGarbageRecursion(_, _, _, _, _)
reduceGarbageSecond(acc, e, garbage, lowerbound, beyond) ==
    LET n == acc.P.ut["v"].nodes[e.p]
    IN IF acc.P.oob THEN acc
       ELSE IF ~isTerminal(n.e[0]) /\ n.e[0].p = n.e[1].p
       THEN [P |-> acc.P, e |-> [acc.e EXCEPT ![1] = acc.e[0]]]
       ELSE IF isTerminal(n.e[1]) THEN [P |-> acc.P, e |-> [acc.e EXCEPT ![1] = n.e[1]]]
       ELSE LET r == reduceGarbageRecursion(acc.P, n.e[1], garbage, lowerbound, beyond)
            IN [P |-> r.P, e |-> [acc.e EXCEPT ![1] = r.ret]]
reduceGarbageFirst(P, e, garbage, lowerbound, beyond) ==
    LET n == P.ut["v"].nodes[e.p]
        none == [i \in Slots("v") |-> NullEdge]
    IN IF isTerminal(n.e[0]) THEN [P |-> P, e |-> [none EXCEPT ![0] = n.e[0]]]
       ELSE LET r == reduceGarbageRecursion(P, n.e[0], garbage, lowerbound, beyond)
            IN [P |-> r.P, e |-> [none EXCEPT ![0] = r.ret]]
reduceGarbageMake(acc, e, garbage, beyond) ==
    IF acc.P.oob THEN Stop(acc.P, EdgeZero)
    ELSE reduceGarbageNode(makeDDNode(acc.P, "v", levelOf(acc.P, "v", e), acc.e, FALSE),
                           e, garbage, beyond)
reduceGarbageRecursion(P, e, garbage, lowerbound, beyond) ==
    IF P.oob \/ levelOf(P, "v", e) < lowerbound THEN [P |-> P, ret |-> e]
    ELSE reduceGarbageMake(
             reduceGarbageSecond(reduceGarbageFirst(P, e, garbage, lowerbound, beyond),
                                 e, garbage, lowerbound, beyond),
             e, garbage, beyond)

\* the lowest qubit of a mask
lowestOf(mask) == CHOOSE q \in mask : \A other \in mask : q <= other

\* vEdge reduceGarbage(vEdge& e, const std::bitset<MAXN>& garbage): [P, ret]
reduceGarbage(P, e, garbage, beyond) ==
    IF garbage = {} \/ e.p = Null THEN [P |-> P, ret |-> e]
    ELSE IF levelOf(P, "v", e) < lowestOf(garbage) THEN [P |-> P, ret |-> e]
    ELSE reduceGarbageRecursion(P, e, garbage, lowestOf(garbage), beyond)


\* ------------------------------------------------------------------------
\* States built and reduced
\* ------------------------------------------------------------------------

RedOps == 3

\* the states of a qubit the client builds vectors of
RedMenu == {"zero", "plus", "right"}

\* auto v = dd->makeBasisState(n, state)
RedMakeState ==
    /\ ops < RedOps
    /\ \E msq \in Levels : \E state \in [1..(msq + 1) -> RedMenu] :
           OpsMade(makeBasisState(pkg, msq, state), "v")
    /\ ops' = ops + 1
    /\ UNCHANGED <<ct, TOLERANCE, sat>>

\* auto r = dd->reduceGarbage(v, garbage)
RedReduceGarbage ==
    /\ ops < RedOps
    /\ \E x \in Held("v"), garbage \in SUBSET Levels, beyond \in [Levels -> BeyondReads] :
           OpsMade(reduceGarbage(pkg, x, garbage, beyond), "v")
    /\ ops' = ops + 1
    /\ UNCHANGED <<ct, TOLERANCE, sat>>

RedNext == RedMakeState \/ RedReduceGarbage

SpecReduce == OpsInit /\ [][RedNext]_vars

\* the nodes of the vector below e, e.p included
RECURSIVE nodesBelow(_, _)
nodesBelow(P, e) ==
    IF isTerminal(e) THEN {}
    ELSE {e.p} \cup nodesBelow(P, P.ut["v"].nodes[e.p].e[0])
               \cup nodesBelow(P, P.ut["v"].nodes[e.p].e[1])

\* C28: reduceGarbage on a vector reads the successors 0 and 1 of a node
\* only, leaves every node of a garbage level with a zero second successor
\* (the second branch is folded into the first), and returns a weight of
\* magnitude at most 1
C28_GarbageFolded ==
    \A x \in Held("v") : \A garbage \in SUBSET Levels : \A beyond \in [Levels -> BeyondReads] :
        LET t == reduceGarbage(pkg, x, garbage, beyond)
        IN ~t.P.oob =>
              /\ t.P.err = pkg.err
              /\ \A n \in nodesBelow(t.P, t.ret) :
                     t.P.ut["v"].nodes[n].v \in garbage =>
                         t.P.ut["v"].nodes[n].e[1] = EdgeZero
              /\ mag2(t.P, t.ret.w) <= Scale + Slack


\* ------------------------------------------------------------------------
\* Package: reduction of ancillary qubits of a matrix
\* ------------------------------------------------------------------------

\* reduceAncillaeRecursion: "f.w = cn.lookup(c); cn.releaseCached(c)" and
\* "incRef(f)"; l the result of the lookup
reduceAncillaeEnd(l, c, f) ==
    IF l.P.oob THEN Stop(l.P, EdgeZero)
    ELSE [P |-> utIncRef(releaseCached(l.P, c), "m", [p |-> f.p, w |-> l.ret]),
          ret |-> [p |-> f.p, w |-> l.ret]]

\* reduceAncillaeRecursion: c the result of cn.mulCached(f.w, e.w)
reduceAncillaeLookup(c, f) ==
    IF c.P.oob THEN Stop(c.P, EdgeZero)
    ELSE reduceAncillaeEnd(cnLookup(c.P, cnValue(c.P, c.ret)), c.ret, f)

\* reduceAncillaeRecursion: "auto c = cn.mulCached(f.w, e.w)"; t holds f
reduceAncillaeWeight(t, e) ==
    IF t.P.oob THEN Stop(t.P, EdgeZero)
    ELSE reduceAncillaeLookup(mulCached(t.P, t.ret.w, e.w), t.ret)

\* reduceAncillaeRecursion: "something to reduce for this qubit"; t holds f
reduceAncillaeMarked(t, regular) ==
    LET n == t.P.ut["m"].nodes[t.ret.p]
    IN IF regular
       THEN IF n.e[1].w # ZERO \/ n.e[3].w # ZERO
            THEN makeDDNode(t.P, "m", n.v,
                            [i \in Slots("m") |-> IF i \in {0, 2} THEN n.e[i] ELSE EdgeZero],
                            FALSE)
            ELSE t
       ELSE IF n.e[2].w # ZERO \/ n.e[3].w # ZERO
            THEN makeDDNode(t.P, "m", n.v,
                            [i \in Slots("m") |-> IF i \in {0, 1} THEN n.e[i] ELSE EdgeZero],
                            FALSE)
            ELSE t

\* reduceAncillaeRecursion: the node made of the reduced successors
reduceAncillaeNode(t, e, ancillary, regular) ==
    IF t.P.oob THEN Stop(t.P, EdgeZero)
    ELSE reduceAncillaeWeight(
             IF ~isTerminal(t.ret) /\ levelOf(t.P, "m", t.ret) \in ancillary
             THEN reduceAncillaeMarked(t, regular)
             ELSE t,
             e)

\* mEdge reduceAncillaeRecursion(mEdge& e, const std::bitset<MAXN>& ancillary,
\* Qubit lowerbound, bool regular): [P, ret]; the loop keeps acc = [P, e,
\* handled]
RECURSIVE reduceAncillaeRecursion(_, _, _, _, _)
reduceAncillaeShare(acc, n, r, i) ==
    [P |-> r.P,
     e |-> [j \in Slots("m") |->
               IF j = i \/ (j > i /\ n.e[j].p = n.e[i].p) THEN r.ret ELSE acc.e[j]],
     handled |-> acc.handled \cup {j \in Slots("m") : j = i \/ (j > i /\ n.e[j].p = n.e[i].p)}]
RECURSIVE reduceAncillaeLoop(_, _, _, _, _, _)
reduceAncillaeLoop(acc, e, ancillary, lowerbound, regular, i) ==
    LET n == acc.P.ut["m"].nodes[e.p]
    IN IF acc.P.oob \/ i = NEDGE THEN acc
       ELSE reduceAncillaeLoop(
                IF i \in acc.handled THEN acc
                ELSE IF isTerminal(n.e[i])
                THEN [acc EXCEPT !.e[i] = n.e[i], !.handled = @ \cup {i}]
                ELSE reduceAncillaeShare(
                         acc, n,
                         reduceAncillaeRecursion(acc.P, n.e[i], ancillary, lowerbound, regular),
                         i),
                e, ancillary, lowerbound, regular, i + 1)
reduceAncillaeMake(acc, e, ancillary, regular) ==
    IF acc.P.oob THEN Stop(acc.P, EdgeZero)
    ELSE reduceAncillaeNode(makeDDNode(acc.P, "m", levelOf(acc.P, "m", e), acc.e, FALSE),
                            e, ancillary, regular)
reduceAncillaeRecursion(P, e, ancillary, lowerbound, regular) ==
    IF P.oob \/ levelOf(P, "m", e) < lowerbound THEN [P |-> P, ret |-> e]
    ELSE reduceAncillaeMake(
             reduceAncillaeLoop([P |-> P, e |-> [i \in Slots("m") |-> NullEdge],
                                 handled |-> {}],
                                e, ancillary, lowerbound, regular, 0),
             e, ancillary, regular)

\* mEdge reduceAncillae(mEdge& e, const std::bitset<MAXN>& ancillary, bool
\* regular): [P, ret]
reduceAncillae(P, e, ancillary, regular) ==
    IF ancillary = {} \/ e.p = Null THEN [P |-> P, ret |-> e]
    ELSE IF levelOf(P, "m", e) < lowestOf(ancillary) THEN [P |-> P, ret |-> e]
    ELSE reduceAncillaeRecursion(P, e, ancillary, lowestOf(ancillary), regular)

\* ------------------------------------------------------------------------
\* Gates built, protected and reduced
\* ------------------------------------------------------------------------

AncOps == 3

\* auto g = dd->makeGateDD(mat, n, line)
AncMakeGate ==
    /\ ops < AncOps
    /\ \E mat \in GateMats, msq \in Levels : \E line \in LinesOf(msq) :
           OpsMade(makeGateDD(pkg, mat, msq, line), "m")
    /\ ops' = ops + 1
    /\ UNCHANGED <<ct, TOLERANCE, sat>>

\* dd->incRef(g) for a gate the client holds
AncIncRef ==
    /\ ops < AncOps
    /\ \E x \in roots :
        /\ x.k = "m" /\ x.n = 0
        /\ pkg' = utIncRef(pkg, "m", x.e)
        /\ roots' = (roots \ {x}) \cup {[x EXCEPT !.n = 1]}
    /\ ops' = ops + 1
    /\ UNCHANGED <<ct, TOLERANCE, sat>>

\* auto f = dd->reduceAncillae(g, ancillary, regular), which returns f with
\* its reference taken
AncReduceAncillae ==
    /\ ops < AncOps
    /\ \E x \in Held("m"), ancillary \in SUBSET Levels, regular \in BOOLEAN :
           LET t == reduceAncillae(pkg, x, ancillary, regular)
           IN /\ ancillary # {} /\ lowestOf(ancillary) <= levelOf(pkg, "m", x)
              /\ ~t.P.oob
              /\ [k |-> "m", e |-> t.ret, n |-> 1] \notin roots
              /\ pkg' = settle(t.P)
              /\ roots' = {r \in roots : ~(r.k = "m" /\ r.e = t.ret)}
                              \cup {[k |-> "m", e |-> t.ret, n |-> 1]}
    /\ ops' = ops + 1
    /\ UNCHANGED <<ct, TOLERANCE, sat>>

AncNext == AncMakeGate \/ AncIncRef \/ AncReduceAncillae

SpecAnc == OpsInit /\ [][AncNext]_vars

\* the matrix nodes below the edge e, e.p included
RECURSIVE nodesBelowM(_, _, _)
nodesBelowM(P, e, i) ==
    IF isTerminal(e) \/ i = NEDGE THEN {}
    ELSE {e.p} \cup nodesBelowM(P, P.ut["m"].nodes[e.p].e[i], 0) \cup nodesBelowM(P, e, i + 1)

\* fillConsistencyCounter over the edges the client has a reference of (R,
\* records [e, n]): the references of the client to node p and the edges to
\* p of the nodes below them
RECURSIVE countRoots(_, _)
countRoots(R, p) ==
    IF R = {} THEN 0
    ELSE LET r == CHOOSE y \in R : TRUE
         IN (IF r.e.p = p THEN r.n ELSE 0) + countRoots(R \ {r}, p)
RECURSIVE countEdges(_, _, _)
countEdges(P, S, p) ==
    IF S = {} THEN 0
    ELSE LET m == CHOOSE y \in S : TRUE
         IN Cardinality({i \in Slots("m") : P.ut["m"].nodes[m].e[i].p = p})
            + countEdges(P, S \ {m}, p)
recountOf(P, R, p) ==
    countRoots(R, p) + countEdges(P, UNION {nodesBelowM(P, r.e, 0) : r \in R}, p)

\* the references the client has taken
Protected == {[e |-> r.e, n |-> r.n] : r \in {q \in roots : q.k = "m" /\ q.n > 0}}

\* the counts of the nodes below the edges of R are the recounted ones
countsSound(P, R, e) ==
    \A p \in nodesBelowM(P, e, 0) : P.ut["m"].nodes[p].ref = recountOf(P, R, p)

\* the roots R with one more reference of the edge f
withRoot(R, f) ==
    IF \E r \in R : r.e = f
    THEN {IF r.e = f THEN [r EXCEPT !.n = @ + 1] ELSE r : r \in R}
    ELSE R \cup {[e |-> f, n |-> 1]}

\* C27: after f = reduceAncillae(e, mask) on a matrix whose counts are
\* sound, every node below f has the count the recount over the references
\* of the client, that of f counted once, gives (no count being at the
\* maximum, where it sticks)
C27_CountsSoundAfterReduce ==
    \A x \in Held("m") : \A ancillary \in (SUBSET Levels) \ {{}} : \A regular \in BOOLEAN :
        (/\ lowestOf(ancillary) <= levelOf(pkg, "m", x)
         /\ \A r \in Protected : countsSound(pkg, Protected, r.e)) =>
            LET t == reduceAncillae(pkg, x, ancillary, regular)
            IN (~t.P.oob /\ ~Saturated(t.P)) =>
                   countsSound(t.P, withRoot(Protected, t.ret), t.ret)


\* ------------------------------------------------------------------------
\* The Toffoli table on its own
\* ------------------------------------------------------------------------

TtOps == 3

\* the keys and edges the client uses: gates on 1 or 2 qubits, controls on
\* the qubits 1 and 2, the null edge and an edge to the terminal
TtQubits == {1, 2}
TtControls == SUBSET {[qubit |-> 1, pos |-> TRUE], [qubit |-> 2, pos |-> FALSE]}
TtTargets == {0, 1}
TtEdges == {NullEdge, EdgeOne}

\* toffoliTable.insert(n, controls, target, e)
TtInsert ==
    /\ ops < TtOps
    /\ \E n \in TtQubits, controls \in TtControls, target \in TtTargets, e \in TtEdges :
           pkg' = ttInsert(pkg, n, controls, target, e)
    /\ ops' = ops + 1
    /\ UNCHANGED <<ct, TOLERANCE, roots, sat>>

\* toffoliTable.clear()
TtClear ==
    /\ ops < TtOps
    /\ pkg' = ttClear(pkg)
    /\ ops' = ops + 1
    /\ UNCHANGED <<ct, TOLERANCE, roots, sat>>

TtNext == TtInsert \/ TtClear

SpecTT == OpsInit /\ [][TtNext]_vars

\* what an insert of e under (n, controls, target) leaves every lookup with:
\* e under its own key if e is not null, nothing under the other keys of
\* its slot, and what it was under the keys of the other slots
afterInsert(n, controls, target, e) ==
    \A n2 \in TtQubits, c2 \in TtControls, t2 \in TtTargets :
        ttLookup(pkg', n2, c2, t2) =
            IF ttHash(c2, t2) # ttHash(controls, target) THEN ttLookup(pkg, n2, c2, t2)
            ELSE IF n2 = n /\ c2 = controls /\ t2 = target /\ e.p # Null THEN e
            ELSE NullEdge

\* C31: a lookup returns the edge of the most recent insert into its slot
\* if that insert had the same n, controls and target and an edge that is
\* not null, and the null edge otherwise; an insert overwrites its slot;
\* after clear every lookup returns the null edge
C31_NoFalseHits ==
    [][/\ \A n \in TtQubits, controls \in TtControls, target \in TtTargets, e \in TtEdges :
              pkg' = ttInsert(pkg, n, controls, target, e) =>
                  afterInsert(n, controls, target, e)
       /\ pkg' = ttClear(pkg) =>
              \A n \in TtQubits, controls \in TtControls, target \in TtTargets :
                  ttLookup(pkg', n, controls, target) = NullEdge]_vars

\* two inserts since the last clear went to the same slot, which holds an
\* edge, the other slot never having been written
C31_Witness ==
    /\ pkg.toffoli.count = 2
    /\ \E key \in 0..(TT_NBUCKET - 1) :
           /\ pkg.toffoli.table[key].e.p # Null
           /\ \A other \in (0..(TT_NBUCKET - 1)) \ {key} :
                  pkg.toffoli.table[other] = TTEmptyEntry


\* ------------------------------------------------------------------------
\* The float pool, cleared and used again
\* ------------------------------------------------------------------------

ClrNext == CtLookup \/ CtIncRef \/ CtDecRef \/ CtGarbageCollect \/ CtClear

SpecClear == CtInit /\ [][ClrNext]_vars

\* C32: the entry lookup creates on a miss has refCount 0 when lookup
\* returns, whether it comes from a fresh chunk, from the free list or from
\* the first chunk after clear
C32_NewEntryUnreferenced ==
    \A v \in LookupVals :
        (lookupMisses(ct, v, TOLERANCE) /\ CanGetEntry(ct)) =>
            LET r == lookup(ct, v, TOLERANCE)
            IN EntryAt(r.ct, r.ret).refCount = 0


\* C33: count is the number of entries linked in the buckets, peakCount is
\* at least count, and every linked entry is in the bucket its value hashes
\* to
C33_CountsLinked ==
    /\ ct.count = Cardinality(Linked(ct))
    /\ ct.peakCount >= ct.count
    /\ \A e \in Linked(ct) : e \in chain(ct, ct.table[hash(EntryAt(ct, e).value)])

\* the pool has been cleared, filled again and collected: the static
\* entries are not linked, entries are, some are on the free list
C33_Witness ==
    /\ zero \notin Linked(ct)
    /\ ct.count > 1
    /\ ct.available # Null
    /\ ct.peakCount > ct.count


\* ------------------------------------------------------------------------
\* The float pool with a limit that earlier collections have raised
\* ------------------------------------------------------------------------

LimOps == 3

\* the limit of a pool: the one of the constructor, or the one a collection
\* has left that 124 entries survived, most of them released and collected
\* since
RaisedLimit == 128
GcLimits == {INITIAL_GC_LIMIT, RaisedLimit}

LimInit ==
    /\ TOLERANCE = DEFAULT_TOLERANCE
    /\ \E g \in GcLimits : ct = [ctConstructed(DEFAULT_TOLERANCE) EXCEPT !.gcLimit = g]
    /\ pkg = pkgConstructed(DEFAULT_TOLERANCE)
    /\ roots = {}
    /\ sat = FALSE
    /\ ops = 0

\* lookup(v)
LimLookup ==
    /\ ops < LimOps
    /\ \E v \in LookupVals :
        /\ lookupMisses(ct, v, TOLERANCE) => CanGetEntry(ct)
        /\ ct' = lookup(ct, v, TOLERANCE).ct
    /\ ops' = ops + 1
    /\ UNCHANGED <<TOLERANCE, pkg, roots, sat>>

\* incRef(e)
LimIncRef ==
    /\ ops < LimOps
    /\ \E e \in Linked(ct) : ct' = incRefEntry(ct, e)
    /\ ops' = ops + 1
    /\ UNCHANGED <<TOLERANCE, pkg, roots, sat>>

\* garbageCollect(force)
LimGarbageCollect ==
    /\ ops < LimOps
    /\ \E force \in BOOLEAN : ct' = ctGarbageCollect(ct, force).ct
    /\ ops' = ops + 1
    /\ UNCHANGED <<TOLERANCE, pkg, roots, sat>>

\* clear()
LimClear ==
    /\ ops < LimOps
    /\ ct' = ctClear(ct)
    /\ ops' = ops + 1
    /\ UNCHANGED <<TOLERANCE, pkg, roots, sat>>

LimNext == LimLookup \/ LimIncRef \/ LimGarbageCollect \/ LimClear

SpecLimit == LimInit /\ [][LimNext]_vars

\* bool needsCollection()
needsCollection(t) == t.count >= t.gcLimit

\* C34: after a garbageCollect that runs, count < gcLimit, needsCollection
\* is false, and an unforced garbageCollect that follows returns 0 and
\* unlinks nothing
C34_BelowLimitAfterRun ==
    \A force \in BOOLEAN :
        (force \/ needsCollection(ct)) =>
            LET r == ctGarbageCollect(ct, force).ct
            IN /\ r.count < r.gcLimit
               /\ ~needsCollection(r)
               /\ ctGarbageCollect(r, FALSE) = [ct |-> r, ret |-> 0]

\* a run has lowered the limit to an eighth, and an entry was made since
C34_Witness ==
    /\ ct.gcLimit = RaisedLimit \div 8
    /\ ct.count > Cardinality({zero, one} \cap Linked(ct))


\* ------------------------------------------------------------------------
\* decRef of an edge whose node is not referenced
\* ------------------------------------------------------------------------

\* the state but for the errors raised
sameButErr(Q, P) == [Q EXCEPT !.err = P.err] = P

\* C37: decRef(e) on an edge whose non-terminal node has ref == 0 raises
\* the runtime error and leaves every node reference count, every weight
\* reference count and every active-node counter as it was
C37_FailedDecRefUnchanged ==
    \A x \in roots :
        (~isTerminal(x.e) /\ pkg.ut[x.k].nodes[x.e.p].ref = 0) =>
            LET Q == utDecRef(pkg, x.k, x.e)
            IN /\ decRefError \in Q.err
               /\ sameButErr(Q, pkg)


\* ------------------------------------------------------------------------
\* incRef and decRef as a round trip
\* ------------------------------------------------------------------------

\* the reference counts of the nodes and of the float entries, and the
\* active-node counters
countsOf(P) ==
    [ref |-> [k \in Kinds |-> [n \in 1..MaxNode |-> P.ut[k].nodes[n].ref]],
     refCount |-> [a \in DOMAIN P.ct.chunks |-> P.ct.chunks[a].refCount],
     active |-> [k \in Kinds |-> P.ut[k].active],
     activeNodeCount |-> [k \in Kinds |-> P.ut[k].activeNodeCount]]

\* the nodes reachable from e
RECURSIVE nodesFrom(_, _, _, _)
nodesFrom(P, k, e, i) ==
    IF isTerminal(e) \/ e.p = Null \/ i = NEdgesOf(k) THEN {}
    ELSE {e.p} \cup nodesFrom(P, k, P.ut[k].nodes[e.p].e[i], 0) \cup nodesFrom(P, k, e, i + 1)

\* the float entries of the weights of e and of the edges below it
entriesFrom(P, k, e) ==
    LET ws == {e.w} \cup {P.ut[k].nodes[n].e[i].w : n \in nodesFrom(P, k, e, 0), i \in Slots(k)}
    IN ({getAlignedPointer(w.r) : w \in ws} \cup {getAlignedPointer(w.i) : w \in ws})
       \ {Null, zero, one}

\* a reference count reachable from e is at its maximum
saturatedFrom(P, k, e) ==
    \/ \E n \in nodesFrom(P, k, e, 0) : P.ut[k].nodes[n].ref = RefCountMax
    \/ \E a \in entriesFrom(P, k, e) : EntryAt(P.ct, a).refCount = RefCountMax

\* C36: incRef(e) followed by decRef(e) restores every reference count and
\* the active-node counters, provided no count reachable from e is at its
\* maximum, before or after the incRef
C36_IncDecRoundTrip ==
    \A x \in roots :
        LET Q == utIncRef(pkg, x.k, x.e)
            R == utDecRef(Q, x.k, x.e)
        IN ~saturatedFrom(Q, x.k, x.e) =>
            /\ countsOf(R) = countsOf(pkg)
            /\ R.err = pkg.err

\* the client holds an unreferenced edge to a node with a child node and a
\* weight in the pool, and another edge it has protected
C36_Witness ==
    /\ \E x \in roots :
        /\ ~isTerminal(x.e)
        /\ pkg.ut[x.k].nodes[x.e.p].ref = 0
        /\ \E i \in Slots(x.k) : pkg.ut[x.k].nodes[x.e.p].e[i].p \in 1..MaxNode
        /\ getAlignedPointer(x.e.w.r) \notin {zero, one}
        /\ ~saturatedFrom(utIncRef(pkg, x.k, x.e), x.k, x.e)
        /\ countsOf(utIncRef(pkg, x.k, x.e)) # countsOf(pkg)
    /\ \E y \in roots : y.n > 0


\* ------------------------------------------------------------------------
\* The counters of the unique tables under any sequence of calls
\* ------------------------------------------------------------------------

CntOps == 5

\* Package(nq)
CntInit ==
    /\ TOLERANCE = DEFAULT_TOLERANCE
    /\ ct = ctConstructed(DEFAULT_TOLERANCE)
    /\ \E nq \in 1..NQ :
        pkg = utResize(utResize(pkgConstructed(DEFAULT_TOLERANCE), "v", nq), "m", nq)
    /\ roots = {}
    /\ sat = FALSE
    /\ ops = 0

\* makeDDNode on a level of the package, which ends with lookup; the client
\* keeps the edges it has
CntMake(mk, k) ==
    /\ ~mk.P.oob
    /\ pkg' = settle(mk.P)
    /\ roots' = IF \E x \in roots : x.k = k /\ x.e = mk.ret THEN roots
                ELSE roots \cup {[k |-> k, e |-> mk.ret, n |-> 0]}
CntMakeNode ==
    /\ ops < CntOps
    /\ \E k \in Kinds, var \in Levels :
        \E t0 \in TargetsOf(k, var), t1 \in TargetsOf(k, var),
           w1 \in {[r |-> Scale, i |-> 0], NoWeight} :
            LET e0 == [p |-> t0, w |-> ONE]
                lw == IF w1 = NoWeight THEN [P |-> pkg, ret |-> ZERO] ELSE cnLookup(pkg, w1)
                e1 == IF w1 = NoWeight THEN EdgeZero ELSE [p |-> t1, w |-> lw.ret]
            IN /\ var < pkg.ut[k].nvars
               /\ \A other \in Kinds \ {k} : pkg.ut[other].allocations = 0
               /\ CntMake(makeDDNode(lw.P, k, var,
                                     [i \in Slots(k) |-> IF i \in {0, 3} THEN e0 ELSE e1],
                                     FALSE),
                          k)
    /\ ops' = ops + 1
    /\ UNCHANGED <<ct, TOLERANCE, sat>>

\* incRef(e) for any edge the client holds
CntIncRef ==
    /\ ops < CntOps
    /\ \E x \in roots :
        /\ x.n < MaxRootRefs
        /\ pkg' = utIncRef(pkg, x.k, x.e)
        /\ roots' = (roots \ {x}) \cup {[x EXCEPT !.n = @ + 1]}
    /\ sat' = (sat \/ Saturated(pkg'))
    /\ ops' = ops + 1
    /\ UNCHANGED <<ct, TOLERANCE>>

\* decRef(e) for any edge the client holds, incRef'd by it or not; the
\* client catches the runtime error. Calls that fail the assertion of
\* ComplexTable::decRef are left out.
CntDecRef ==
    /\ ops < CntOps
    /\ \E x \in roots :
        /\ "decRef: refCount == 0" \notin utDecRef(pkg, x.k, x.e).err
        /\ pkg' = utDecRef(pkg, x.k, x.e)
        /\ roots' = (roots \ {x}) \cup {[x EXCEPT !.n = IF @ > 0 THEN @ - 1 ELSE 0]}
    /\ ops' = ops + 1
    /\ UNCHANGED <<ct, TOLERANCE, sat>>

\* garbageCollect(force); the client keeps the edges it has protected
CntGarbageCollect ==
    /\ ops < CntOps
    /\ \E force \in BOOLEAN : pkg' = settle(pkgGarbageCollect(pkg, force))
    /\ roots' = {x \in roots : x.n > 0}
    /\ ops' = ops + 1
    /\ UNCHANGED <<ct, TOLERANCE, sat>>

\* clear() of both tables, after which the client holds no edge
CntClear ==
    /\ ops < CntOps
    /\ roots # {}
    /\ pkg' = settle(pkgReset(pkg))
    /\ roots' = {}
    /\ ops' = ops + 1
    /\ UNCHANGED <<ct, TOLERANCE, sat>>

\* resize(nq) to a size not smaller than the current one
CntResize ==
    /\ ops < CntOps
    /\ \E nq \in 1..NQ :
        /\ \A k \in Kinds : nq >= pkg.ut[k].nvars
        /\ pkg' = utResize(utResize(pkg, "v", nq), "m", nq)
    /\ ops' = ops + 1
    /\ UNCHANGED <<ct, TOLERANCE, roots, sat>>

CntNext ==
    CntMakeNode \/ CntIncRef \/ CntDecRef \/ CntGarbageCollect \/ CntClear \/ CntResize

SpecCounts == CntInit /\ [][CntNext]_vars

\* the counters of the table of kind k agree with its nodes
countersAgree(P, k) ==
    LET u == P.ut[k]
        linked == LinkedNodes(P, k)
    IN /\ u.nodeCount = Cardinality(linked)
       /\ \A v \in Levels :
            u.active[v] = Cardinality({n \in linked : u.nodes[n].v = v /\ u.nodes[n].ref > 0})
       /\ u.activeNodeCount = accumulate(u.active, NQ)

\* C35: nodeCount is the number of linked nodes, active[v] the number of
\* level-v nodes with ref > 0, and activeNodeCount the sum of active[v], in
\* every state reachable by lookup, incRef, decRef, garbageCollect, clear
\* and resize to a size not smaller
C35_CountersAgree == \A k \in Kinds : countersAgree(pkg, k)


\* ------------------------------------------------------------------------
\* The node arena of a unique table: getNode, returnNode, lookup
\* ------------------------------------------------------------------------

ArOps == 6

\* the edge arrays the client gives a vector node
ArEdges == {<<EdgeOne, EdgeZero>>, <<EdgeZero, EdgeOne>>}

\* the nodes the client has got from getNode and neither returned nor linked
HandedOut == {x.p : x \in roots}

\* p = getNode()
ArGetNode ==
    /\ ops < ArOps
    /\ CanGetNode(pkg, "v")
    /\ pkg' = getNode(pkg, "v").P
    /\ roots' = roots \cup {[p |-> getNode(pkg, "v").ret]}
    /\ ops' = ops + 1
    /\ UNCHANGED <<ct, TOLERANCE, sat>>

\* returnNode(p) of a node the client has got
ArReturnNode ==
    /\ ops < ArOps
    /\ \E x \in roots :
        /\ pkg' = settle(returnNode(pkg, "v", x.p))
        /\ roots' = roots \ {x}
    /\ ops' = ops + 1
    /\ UNCHANGED <<ct, TOLERANCE, sat>>

\* p->v = v; p->e = edges; lookup({p, one}, keepNode): the node is linked, or
\* an equal node is found and p returned unless keepNode
ArLookup ==
    /\ ops < ArOps
    /\ \E x \in roots, v \in Levels, edges \in ArEdges, keepNode \in BOOLEAN :
        LET filled == [pkg EXCEPT !.ut["v"].nodes[x.p].v = v,
                                  !.ut["v"].nodes[x.p].e = [i \in Slots("v") |-> edges[i + 1]]]
            l == utLookup(filled, "v", [p |-> x.p, w |-> ONE], keepNode)
        IN /\ pkg' = settle(l.P)
           /\ roots' = IF l.ret.p # x.p /\ keepNode THEN roots ELSE roots \ {x}
    /\ ops' = ops + 1
    /\ UNCHANGED <<ct, TOLERANCE, sat>>

\* incRef({p, one}) of a linked node
ArIncRef ==
    /\ ops < ArOps
    /\ \E p \in LinkedNodes(pkg, "v") :
        /\ pkg.ut["v"].nodes[p].ref = 0
        /\ pkg' = utIncRef(pkg, "v", [p |-> p, w |-> ONE])
    /\ ops' = ops + 1
    /\ UNCHANGED <<ct, TOLERANCE, roots, sat>>

\* garbageCollect(force)
ArGarbageCollect ==
    /\ ops < ArOps
    /\ \E force \in BOOLEAN : pkg' = settle(utGarbageCollect(pkg, "v", force).P)
    /\ ops' = ops + 1
    /\ UNCHANGED <<ct, TOLERANCE, roots, sat>>

\* clear()
ArClear ==
    /\ ops < ArOps
    /\ pkg' = settle(utClear(pkg, "v"))
    /\ ops' = ops + 1
    /\ UNCHANGED <<ct, TOLERANCE, roots, sat>>

ArNext ==
    ArGetNode \/ ArReturnNode \/ ArLookup \/ ArIncRef \/ ArGarbageCollect \/ ArClear

SpecArena == UtInit /\ [][ArNext]_vars

\* the first nodes, at most fuel of them, of the list that starts at p
RECURSIVE nodeWalk(_, _, _, _)
nodeWalk(P, k, p, fuel) ==
    IF p = Null \/ fuel = 0 THEN <<>>
    ELSE <<p>> \o nodeWalk(P, k, P.ut[k].nodes[p].next, fuel - 1)

\* the list that starts at p ends and has no node twice
noRepeat(P, k, p) ==
    LET w == nodeWalk(P, k, p, MaxNode + 1)
    IN /\ Len(w) <= MaxNode
       /\ \A i, j \in 1..Len(w) : w[i] = w[j] => i = j

\* C38: no node is on the free list and in a bucket, none is twice on the
\* free list, and getNode returns a node that is in no bucket and not in
\* the hands of the client, with ref == 0 and next == nullptr
C38_FreeListSafe ==
    /\ noRepeat(pkg, "v", pkg.ut["v"].available)
    /\ \A v \in Levels, key \in 0..UT_MASK : noRepeat(pkg, "v", pkg.ut["v"].tables[v][key])
    /\ FreeNodes(pkg, "v") \cap LinkedNodes(pkg, "v") = {}
    /\ CanGetNode(pkg, "v") =>
        LET g == getNode(pkg, "v")
        IN /\ g.ret \in 1..MaxNode
           /\ g.ret \notin LinkedNodes(pkg, "v")
           /\ g.ret \notin LinkedNodes(g.P, "v")
           /\ g.ret \notin FreeNodes(g.P, "v")
           /\ g.ret \notin HandedOut
           /\ g.P.ut["v"].nodes[g.ret].ref = 0
           /\ g.P.ut["v"].nodes[g.ret].next = Null

\* clear has put a referenced node at the head of the free list, before
\* another node, while the client holds a node
C38_Witness ==
    /\ pkg.ut["v"].available # Null
    /\ pkg.ut["v"].nodes[pkg.ut["v"].available].ref > 0
    /\ pkg.ut["v"].nodes[pkg.ut["v"].available].next # Null
    /\ HandedOut # {}

====
